---- MODULE Spec2Model ----
(***************************************************************************)
(* Incident lifecycle engine of the SentinelLink / Anginat backend:        *)
(* IncidentService (incident.service.ts), the duplicate detector           *)
(* (duplicateDetector.ts, distance.ts), the controller's mapping of        *)
(* service results to responses and the central error handler.             *)
(*                                                                         *)
(* Every request is a process held in a slot of req.  One action is one    *)
(* stretch of handler code between two awaits: a store call is atomic, the *)
(* code after it up to the next await runs with it (Node runs a handler    *)
(* without preemption between awaits).  When a handler answers, its slot   *)
(* is free again and the answered request is kept in last.                 *)
(*                                                                         *)
(* Coordinates are integers in units of 1e-4 degree, times are minutes.    *)
(***************************************************************************)
EXTENDS Integers, Sequences, FiniteSets, TLC

VARIABLES
    incidents,   \* table Incident: set of rows
    votes,       \* table Vote: set of rows [id, userId, incidentId]
    adminNotes,  \* table AdminNote: set of rows [id, incidentId, userId, note]
    events,      \* what the socket service has emitted, in order
    now,         \* wall clock, minutes
    req,         \* the requests in flight, one per slot
    last,        \* the request answered most recently, with its response
    started,     \* number of requests accepted so far
    nextId,      \* next fresh incident id (uuidv4 never repeats)
    nextRowId,   \* next fresh Vote / AdminNote row id
    users        \* table User: set of rows [id, role]

vars == <<incidents, votes, adminNotes, events, now, req, last, started, nextId, nextRowId, users>>

----------------------------------------------------------------------------
\* Bounds of the model

NumSlots == 2
MaxRequests == 6
MaxNow == 20

Slots == 1..NumSlots

----------------------------------------------------------------------------
\* Program constants

VERIFICATION_THRESHOLD == 5
DUPLICATE_DISTANCE_METERS == 200
DUPLICATE_TIME_MINUTES == 10
TAKE_LIMIT == 20
DUP_MARKER == "[POTENTIAL DUPLICATE]"
ANONYMOUS == "anonymous"

incidentStatuses == {"REPORTED", "VERIFIED", "IN_PROGRESS", "RESOLVED", "FLAGGED"}
severityLevels == {"LOW", "MEDIUM", "HIGH"}

Users == {"u1", "u2"}

Null == [id |-> 0]

----------------------------------------------------------------------------
\* Store primitives (Prisma client calls)

FindIncident(tbl, id) ==
    IF \E i \in tbl : i.id = id THEN CHOOSE i \in tbl : i.id = id ELSE Null

IncidentExists(tbl, id) == \E i \in tbl : i.id = id

\* prisma.incident.update({where: {id}, data}): only the given fields change
UpdateIncident(tbl, id, f, v) ==
    {IF i.id = id THEN [i EXCEPT ![f] = v] ELSE i : i \in tbl}

\* mutant: the update writes a count of its own instead of incrementing
IncrementUpvote_Overwrites(tbl, id) ==
    {IF i.id = id THEN [i EXCEPT !.upvoteCount = 1] ELSE i : i \in tbl}

\* data: {upvoteCount: {increment: 1}}
IncrementUpvote(tbl, id) ==
    {IF i.id = id THEN [i EXCEPT !.upvoteCount = @ + 1] ELSE i : i \in tbl}

\* prisma.vote.findUnique({where: {userId_incidentId: {userId, incidentId}}})
FindVote(tbl, userId, incidentId) ==
    IF \E v \in tbl : v.userId = userId /\ v.incidentId = incidentId
    THEN CHOOSE v \in tbl : v.userId = userId /\ v.incidentId = incidentId
    ELSE Null

\* mutant: the Vote table has no unique key on (userId, incidentId)
VoteUniqueViolation_NoKey(tbl, userId, incidentId) == FALSE

\* the compound unique key userId_incidentId of Vote rejects a second row
VoteUniqueViolation(tbl, userId, incidentId) ==
    \E v \in tbl : v.userId = userId /\ v.incidentId = incidentId

\* prisma.user.findUnique({where: {id}}) on the User table
NoUser == [id |-> "", role |-> ""]
UserExists(tbl, id) == \E u \in tbl : u.id = id
FindUser(tbl, id) == IF UserExists(tbl, id) THEN CHOOSE u \in tbl : u.id = id ELSE NoUser

\* The users that have registered: one administrator and two citizens
RegisteredUsers == {[id |-> "admin", role |-> "ADMIN"],
                    [id |-> "u1", role |-> "CITIZEN"],
                    [id |-> "u2", role |-> "CITIZEN"]}

----------------------------------------------------------------------------
\* Errors and their mapping to a response status (errorHandler)

PrismaError(code) == [name |-> "PrismaClientKnownRequestError", code |-> code, statusCode |-> 0]
PlainError == [name |-> "Error", code |-> "", statusCode |-> 0]
ZodError == [name |-> "ZodError", code |-> "", statusCode |-> 0]
AppError(statusCode) == [name |-> "AppError", code |-> "", statusCode |-> statusCode]

\* mutant: the handler has no case for the record-not-found code P2025
errorHandler_NoP2025(err) ==
    IF err.name = "ZodError" THEN 400
    ELSE IF err.name = "AppError" THEN err.statusCode
    ELSE IF err.name = "PrismaClientKnownRequestError" /\ err.code = "P2002" THEN 409
    ELSE 500

errorHandler(err) ==
    IF err.name = "ZodError" THEN 400
    ELSE IF err.name = "AppError" THEN err.statusCode
    ELSE IF err.name = "PrismaClientKnownRequestError" /\ err.code = "P2002" THEN 409
    ELSE IF err.name = "PrismaClientKnownRequestError" /\ err.code = "P2025" THEN 404
    ELSE 500

----------------------------------------------------------------------------
\* Socket service

emitNewIncident(log, incident) ==
    Append(log, [name |-> "incident:new", room |-> 0, data |-> incident])

\* A connected client: the incident rooms it has joined by subscribe:incident
\* and the event names it listens to.  io.emit reaches every connected client,
\* io.to(room).emit the clients that have joined the room; the client sees an
\* event if it listens to its name.
Receives(client, log) ==
    {k \in 1..Len(log) :
        /\ log[k].name \in client.listens
        /\ log[k].room = 0 \/ log[k].room \in client.rooms}

\* mutant: the update is broadcast only, the incident's room gets nothing
emitIncidentUpdate_BroadcastOnly(log, incident) ==
    Append(log, [name |-> "incident:update", room |-> 0, data |-> incident])

\* io.emit to everybody, then io.to(`incident:${id}`).emit to the incident's room
emitIncidentUpdate(log, incident) ==
    log \o << [name |-> "incident:update", room |-> 0, data |-> incident],
              [name |-> "incident:updated", room |-> incident.id, data |-> incident] >>

----------------------------------------------------------------------------
\* Requests

NoResp == [code |-> 0, alreadyVoted |-> FALSE, data |-> Null]
NoData == [incidentType |-> "", description |-> <<>>, latitude |-> 0, longitude |-> 0, severity |-> ""]
NoDup == [isDuplicate |-> FALSE, duplicateOf |-> 0]

\* An optional number (number | undefined) and an optional query-string value
Undefined == [defined |-> FALSE, value |-> 0]
Num(n) == [defined |-> TRUE, value |-> n]
Absent == [given |-> FALSE, text |-> <<>>]
Text(s) == [given |-> TRUE, text |-> s]

\* The validated query of a List request, and the results of its two reads
NoQuery == [page |-> 0, limit |-> 0, status |-> "", incidentType |-> "", severity |-> "",
            sortBy |-> "", sortOrder |-> "",
            minLat |-> Undefined, maxLat |-> Undefined,
            minLng |-> Undefined, maxLng |-> Undefined]
NoRead == [found |-> FALSE, incidents |-> <<>>, counted |-> FALSE, total |-> 0]

\* A bearer token: verifyToken accepts it (signature, issuer, audience, expiry)
\* or not; its payload names the user it was issued to and the role the user
\* had then.
NoToken == [present |-> FALSE, valid |-> FALSE, userId |-> "", role |-> ""]
BadToken == [present |-> TRUE, valid |-> FALSE, userId |-> "", role |-> ""]
TokenOf(user) == [present |-> TRUE, valid |-> TRUE, userId |-> user.id, role |-> user.role]

\* The four counts of a Stats request; a count that is still outstanding is -1
NoStats == [total |-> -1, pending |-> -1, active |-> -1, resolved |-> -1]

\* What a request saw of the store when it acted; never read by the handlers.
NoObs == [votedBefore |-> FALSE, raceLost |-> FALSE, preStatus |-> "", postCount |-> 0,
          wrote |-> "", existed |-> FALSE, nearLive |-> FALSE, nearAny |-> FALSE,
          uploadFailed |-> FALSE]

IdleReq == [op |-> "idle", pc |-> "idle", id |-> 0, userId |-> "", status |-> "", note |-> "",
            data |-> NoData, mediaUrl |-> "", incident |-> Null, dup |-> NoDup,
            resp |-> NoResp, obs |-> NoObs, query |-> NoQuery, read |-> NoRead,
            token |-> NoToken, stats |-> NoStats]

\* res.status(code).json({success: true, data, ...})
Ok(code, data, alreadyVoted) == [code |-> code, alreadyVoted |-> alreadyVoted, data |-> data]

\* next(error): the central error handler answers
Failed(err) == [code |-> errorHandler(err), alreadyVoted |-> FALSE, data |-> Null]

\* A new request takes the first free slot (the slots are interchangeable).
Free(r) == req[r].pc = "idle" /\ \A r2 \in 1..(r - 1) : req[r2].pc # "idle"

\* The handler of request q in slot r has reached its next await.
Await(r, q) ==
    /\ req' = [req EXCEPT ![r] = q]
    /\ last' = last

\* The handler of request q in slot r has sent its response.
Answer(r, q, resp) ==
    /\ req' = [req EXCEPT ![r] = IdleReq]
    /\ last' = [q EXCEPT !.pc = "done", !.resp = resp]

----------------------------------------------------------------------------
\* IncidentService.upvoteIncident behind IncidentController.upvoteIncident

\* mutant: the count has to exceed the threshold
ReachedThreshold_Strict(incident) ==
    incident.status = "REPORTED" /\ incident.upvoteCount > VERIFICATION_THRESHOLD

ReachedThreshold(incident) ==
    incident.status = "REPORTED" /\ incident.upvoteCount >= VERIFICATION_THRESHOLD

\* mutant: the anonymous branch records a Vote row for 'anonymous'
UpvoteAnonymous_RecordsVote(r, id) ==
    /\ Free(r)
    /\ started' = started + 1
    /\ LET q == [IdleReq EXCEPT !.op = "upvote", !.id = id, !.userId = ANONYMOUS,
                                !.obs.existed = IncidentExists(incidents, id)]
       IN IF IncidentExists(incidents, id)
          THEN /\ incidents' = IncrementUpvote(incidents, id)
               /\ votes' = votes \cup {[id |-> nextRowId, userId |-> ANONYMOUS, incidentId |-> id]}
               /\ nextRowId' = nextRowId + 1
               /\ Answer(r, q, Ok(200, FindIncident(incidents', id), FALSE))
          ELSE /\ UNCHANGED <<incidents, votes, nextRowId>>
               /\ Answer(r, q, Failed(PrismaError("P2025")))
    /\ UNCHANGED <<adminNotes, events, now, nextId, users>>

\* mutant: the anonymous branch runs the threshold check as well
UpvoteAnonymous_ChecksThreshold(r, id) ==
    /\ Free(r)
    /\ started' = started + 1
    /\ LET q == [IdleReq EXCEPT !.op = "upvote", !.id = id, !.userId = ANONYMOUS,
                                !.obs.existed = IncidentExists(incidents, id)]
       IN IF IncidentExists(incidents, id)
          THEN IF ReachedThreshold(FindIncident(IncrementUpvote(incidents, id), id))
               THEN /\ incidents' = UpdateIncident(IncrementUpvote(incidents, id), id,
                                                   "status", "VERIFIED")
                    /\ events' = emitIncidentUpdate(events, FindIncident(incidents', id))
                    /\ Answer(r, q, Ok(200, FindIncident(incidents', id), FALSE))
               ELSE /\ incidents' = IncrementUpvote(incidents, id)
                    /\ events' = events
                    /\ Answer(r, q, Ok(200, FindIncident(incidents', id), FALSE))
          ELSE /\ UNCHANGED <<incidents, events>>
               /\ Answer(r, q, Failed(PrismaError("P2025")))
    /\ UNCHANGED <<votes, adminNotes, now, nextId, nextRowId, users>>

\* userId === 'anonymous': one update that increments, no Vote row, no check
UpvoteAnonymous(r, id) ==
    /\ Free(r)
    /\ started' = started + 1
    /\ LET q == [IdleReq EXCEPT !.op = "upvote", !.id = id, !.userId = ANONYMOUS,
                                !.obs.existed = IncidentExists(incidents, id)]
       IN IF IncidentExists(incidents, id)
          THEN /\ incidents' = IncrementUpvote(incidents, id)
               /\ Answer(r, q, Ok(200, FindIncident(incidents', id), FALSE))
          ELSE /\ incidents' = incidents
               /\ Answer(r, q, Failed(PrismaError("P2025")))
    /\ UNCHANGED <<votes, adminNotes, events, now, nextId, nextRowId, users>>

\* const existingVote = await prisma.vote.findUnique(...)
UpvoteFindVote(r, id, userId) ==
    /\ Free(r)
    /\ started' = started + 1
    /\ LET existingVote == FindVote(votes, userId, id)
           q == [IdleReq EXCEPT !.op = "upvote", !.id = id, !.userId = userId,
                                !.obs.existed = IncidentExists(incidents, id),
                                !.obs.votedBefore =
                                    (\E v \in votes : v.userId = userId /\ v.incidentId = id)]
       IN Await(r, [q EXCEPT !.pc = IF existingVote # Null THEN "upvote_found" ELSE "upvote_tx"])
    /\ UNCHANGED <<incidents, votes, adminNotes, events, now, nextId, nextRowId, users>>

\* mutant: the already-voted path increments the count once more
UpvoteAlreadyVoted_CountsAgain(r) ==
    /\ req[r].pc = "upvote_found"
    /\ incidents' = IncrementUpvote(incidents, req[r].id)
    /\ Answer(r, req[r], Ok(200, FindIncident(incidents', req[r].id), TRUE))
    /\ UNCHANGED <<votes, adminNotes, events, now, started, nextId, nextRowId, users>>

\* if (existingVote) { incident = await findUnique; return {incident, alreadyVoted: true} }
UpvoteAlreadyVoted(r) ==
    /\ req[r].pc = "upvote_found"
    /\ Answer(r, req[r], Ok(200, FindIncident(incidents, req[r].id), TRUE))
    /\ UNCHANGED <<incidents, votes, adminNotes, events, now, started, nextId, nextRowId, users>>

\* mutant: the Vote row is created but the count is not incremented
UpvoteTransaction_VoteOnly(r) ==
    /\ req[r].pc = "upvote_tx"
    /\ LET id == req[r].id
           userId == req[r].userId
       IN IF VoteUniqueViolation(votes, userId, id)
          THEN /\ Answer(r, [req[r] EXCEPT !.obs.raceLost = TRUE], Failed(PrismaError("P2002")))
               /\ UNCHANGED <<incidents, votes, nextRowId, events>>
          ELSE IF ~IncidentExists(incidents, id)
          THEN /\ Answer(r, req[r], Failed(PrismaError("P2003")))
               /\ UNCHANGED <<incidents, votes, nextRowId, events>>
          ELSE /\ votes' = votes \cup {[id |-> nextRowId, userId |-> userId, incidentId |-> id]}
               /\ nextRowId' = nextRowId + 1
               /\ incidents' = incidents
               /\ events' = events
               /\ LET incident == FindIncident(incidents', id)
                      q == [req[r] EXCEPT !.incident = incident,
                                          !.obs.preStatus = FindIncident(incidents, id).status,
                                          !.obs.postCount = incident.upvoteCount]
                  IN IF ReachedThreshold(incident)
                     THEN Await(r, [q EXCEPT !.pc = "upvote_verify"])
                     ELSE Answer(r, q, Ok(200, incident, FALSE))
    /\ UNCHANGED <<adminNotes, now, started, nextId, users>>

\* mutant: every counted vote is broadcast
UpvoteTransaction_Emits(r) ==
    /\ req[r].pc = "upvote_tx"
    /\ LET id == req[r].id
           userId == req[r].userId
       IN IF VoteUniqueViolation(votes, userId, id)
          THEN /\ Answer(r, [req[r] EXCEPT !.obs.raceLost = TRUE], Failed(PrismaError("P2002")))
               /\ UNCHANGED <<incidents, votes, nextRowId, events>>
          ELSE IF ~IncidentExists(incidents, id)
          THEN /\ Answer(r, req[r], Failed(PrismaError("P2003")))
               /\ UNCHANGED <<incidents, votes, nextRowId, events>>
          ELSE /\ votes' = votes \cup {[id |-> nextRowId, userId |-> userId, incidentId |-> id]}
               /\ nextRowId' = nextRowId + 1
               /\ incidents' = IncrementUpvote(incidents, id)
               /\ events' = emitIncidentUpdate(events, FindIncident(incidents', id))
               /\ LET incident == FindIncident(incidents', id)
                      q == [req[r] EXCEPT !.incident = incident,
                                          !.obs.preStatus = FindIncident(incidents, id).status,
                                          !.obs.postCount = incident.upvoteCount]
                  IN IF ReachedThreshold(incident)
                     THEN Await(r, [q EXCEPT !.pc = "upvote_verify"])
                     ELSE Answer(r, q, Ok(200, incident, FALSE))
    /\ UNCHANGED <<adminNotes, now, started, nextId, users>>

\* prisma.$transaction([vote.create, incident.update increment]) and the
\* threshold test on its result
UpvoteTransaction(r) ==
    /\ req[r].pc = "upvote_tx"
    /\ LET id == req[r].id
           userId == req[r].userId
       IN IF VoteUniqueViolation(votes, userId, id)
          THEN /\ Answer(r, [req[r] EXCEPT !.obs.raceLost = TRUE], Failed(PrismaError("P2002")))
               /\ UNCHANGED <<incidents, votes, nextRowId>>
          ELSE IF ~IncidentExists(incidents, id)
          THEN /\ Answer(r, req[r], Failed(PrismaError("P2003")))
               /\ UNCHANGED <<incidents, votes, nextRowId>>
          ELSE /\ votes' = votes \cup {[id |-> nextRowId, userId |-> userId, incidentId |-> id]}
               /\ nextRowId' = nextRowId + 1
               /\ incidents' = IncrementUpvote(incidents, id)
               /\ LET incident == FindIncident(incidents', id)
                      q == [req[r] EXCEPT !.incident = incident,
                                          !.obs.preStatus = FindIncident(incidents, id).status,
                                          !.obs.postCount = incident.upvoteCount]
                  IN IF ReachedThreshold(incident)
                     THEN Await(r, [q EXCEPT !.pc = "upvote_verify"])
                     ELSE Answer(r, q, Ok(200, incident, FALSE))
    /\ UNCHANGED <<adminNotes, events, now, started, nextId, users>>

\* verifiedIncident = await prisma.incident.update({data: {status: 'VERIFIED'}}); emit
UpvoteVerify(r) ==
    /\ req[r].pc = "upvote_verify"
    /\ LET id == req[r].id
       IN IF IncidentExists(incidents, id)
          THEN /\ incidents' = UpdateIncident(incidents, id, "status", "VERIFIED")
               /\ LET verifiedIncident == FindIncident(incidents', id)
                  IN /\ events' = emitIncidentUpdate(events, verifiedIncident)
                     /\ Answer(r, [req[r] EXCEPT !.obs.wrote = "VERIFIED"],
                               Ok(200, verifiedIncident, FALSE))
          ELSE /\ Answer(r, req[r], Failed(PrismaError("P2025")))
               /\ UNCHANGED <<incidents, events>>
    /\ UNCHANGED <<votes, adminNotes, now, started, nextId, nextRowId, users>>

\* distance.ts on the coordinate grid.
\* A coordinate is an integer number of 1e-4 degree.  All modelled points
\* lie within 0.002 degree of the equator, where cos(latitude) differs from 1
\* by less than 1e-9, and within MaxMetres of one another, where the haversine
\* distance is R * sqrt(dLat^2 + dLon^2) (angles in radians) to well below a
\* millimetre; sin^2(dLon / 2) has period 360 degrees, so dLon counts the
\* short way round.

UnitsPerDegree == 10000
EARTH_RADIUS_METERS == 6371000
\* (EARTH_RADIUS_METERS * pi / 180 / UnitsPerDegree)^2 * 1000 = 11.11949^2 * 1000
SqMetresPerSqUnitMilli == 123643
MaxMetres == 1400

Abs(x) == IF x < 0 THEN 0 - x ELSE x
Min(a, b) == IF a <= b THEN a ELSE b

ShortWay(dLon) == Min(Abs(dLon), 360 * UnitsPerDegree - Abs(dLon))

\* metres, rounded up to a whole metre
calculateDistance(lat1, lon1, lat2, lon2) ==
    LET dLat == lat2 - lat1
        dLon == ShortWay(lon2 - lon1)
        sqMilli == (dLat * dLat + dLon * dLon) * SqMetresPerSqUnitMilli
    IN CHOOSE m \in 0..MaxMetres :
          /\ m * m * 1000 >= sqMilli
          /\ m > 0 => (m - 1) * (m - 1) * 1000 < sqMilli

\* mutant: every candidate of the bounding box counts as within the distance
isWithinDistance_Always(lat1, lon1, lat2, lon2, maxDistanceMeters) == TRUE

isWithinDistance(lat1, lon1, lat2, lon2, maxDistanceMeters) ==
    calculateDistance(lat1, lon1, lat2, lon2) <= maxDistanceMeters

----------------------------------------------------------------------------
\* duplicateDetector.ts

\* String.prototype.toUpperCase on the incident types the model submits
toUpperCase(s) ==
    CASE s = "fire" -> "FIRE"
      [] s = "flood" -> "FLOOD"
      [] OTHER -> s

\* {equals: x, mode: 'insensitive'}
EqualsInsensitive(a, b) == toUpperCase(a) = toUpperCase(b)

\* latDelta = DUPLICATE_DISTANCE_METERS / 111000 degrees; a grid coordinate x
\* satisfies x <= c + latDelta exactly when x - c <= floor(latDelta in units)
LatDelta == (DUPLICATE_DISTANCE_METERS * UnitsPerDegree) \div 111000
\* lonDelta = latDelta / cos(latitude); cos(latitude) is 1 on the modelled band
LonDelta(latitude) == LatDelta

\* mutant: the query has no status condition
RecentIncidents_AnyStatus(tbl, clock, incidentType, latitude, longitude) ==
    {i \in tbl :
        /\ EqualsInsensitive(i.incidentType, incidentType)
        /\ i.createdAt >= clock - DUPLICATE_TIME_MINUTES
        /\ i.latitude >= latitude - LatDelta
        /\ i.latitude <= latitude + LatDelta
        /\ i.longitude >= longitude - LonDelta(latitude)
        /\ i.longitude <= longitude + LonDelta(latitude)}

\* the where clause of prisma.incident.findMany in checkForDuplicate
RecentIncidents(tbl, clock, incidentType, latitude, longitude) ==
    {i \in tbl :
        /\ EqualsInsensitive(i.incidentType, incidentType)
        /\ i.createdAt >= clock - DUPLICATE_TIME_MINUTES
        /\ i.latitude >= latitude - LatDelta
        /\ i.latitude <= latitude + LatDelta
        /\ i.longitude >= longitude - LonDelta(latitude)
        /\ i.longitude <= longitude + LonDelta(latitude)
        /\ i.status \notin {"RESOLVED", "FLAGGED"}}

\* orderBy createdAt desc, take 20: the results the store may return
Taken(cands) ==
    {T \in SUBSET cands :
        /\ Cardinality(T) = Min(TAKE_LIMIT, Cardinality(cands))
        /\ \A x \in T, y \in cands \ T : x.createdAt >= y.createdAt}

\* the outcomes of checkForDuplicate: the first candidate, most recent first,
\* that is within the distance
checkForDuplicate(tbl, clock, incidentType, latitude, longitude) ==
    UNION {
        LET hits == {i \in T : isWithinDistance(latitude, longitude, i.latitude, i.longitude,
                                                DUPLICATE_DISTANCE_METERS)}
        IN IF hits = {}
           THEN {NoDup}
           ELSE {[isDuplicate |-> TRUE, duplicateOf |-> i.id] :
                    i \in {h \in hits : \A g \in hits : h.createdAt >= g.createdAt}}
        : T \in Taken(RecentIncidents(tbl, clock, incidentType, latitude, longitude))}

----------------------------------------------------------------------------
\* IncidentService.createIncident behind IncidentController.createIncident

\* Is there a stored incident the duplicate rule names: same type whatever the
\* case, created within the time window, within the distance?  live: not
\* counting RESOLVED and FLAGGED ones.
NearRecentSameType(tbl, clock, data, live) ==
    \E i \in tbl :
        /\ toUpperCase(i.incidentType) = toUpperCase(data.incidentType)
        /\ clock - i.createdAt <= DUPLICATE_TIME_MINUTES
        /\ calculateDistance(data.latitude, data.longitude, i.latitude, i.longitude)
              <= DUPLICATE_DISTANCE_METERS
        /\ live => i.status \notin {"RESOLVED", "FLAGGED"}

\* mutant: a rejected upload is swallowed and the Create goes on without media
CreateUpload_IgnoresFailure(r, data, uploaded) ==
    /\ Free(r)
    /\ started' = started + 1
    /\ nextId' = nextId + 1
    /\ LET q == [IdleReq EXCEPT !.op = "create", !.id = nextId, !.data = data,
                                !.obs.uploadFailed = ~uploaded]
       IN Await(r, [q EXCEPT !.pc = "create_check",
                             !.mediaUrl = IF uploaded THEN "secure_url" ELSE ""])
    /\ UNCHANGED <<incidents, votes, adminNotes, events, now, nextRowId, users>>

\* const id = uuidv4(); uploadToCloudinary resolves or rejects
CreateUpload(r, data, uploaded) ==
    /\ Free(r)
    /\ started' = started + 1
    /\ nextId' = nextId + 1
    /\ LET q == [IdleReq EXCEPT !.op = "create", !.id = nextId, !.data = data,
                                !.obs.uploadFailed = ~uploaded]
       IN IF uploaded
          THEN Await(r, [q EXCEPT !.pc = "create_check", !.mediaUrl = "secure_url"])
          ELSE Answer(r, q, Failed(PlainError))
    /\ UNCHANGED <<incidents, votes, adminNotes, events, now, nextRowId, users>>

\* duplicateCheck = await checkForDuplicate(...), first await of a request
\* without media
CreateCheck(r, data) ==
    /\ Free(r)
    /\ started' = started + 1
    /\ nextId' = nextId + 1
    /\ \E dup \in checkForDuplicate(incidents, now, data.incidentType, data.latitude, data.longitude) :
          Await(r, [IdleReq EXCEPT !.op = "create", !.pc = "create_insert", !.id = nextId,
                                   !.data = data, !.dup = dup,
                                   !.obs.nearLive = NearRecentSameType(incidents, now, data, TRUE),
                                   !.obs.nearAny = NearRecentSameType(incidents, now, data, FALSE)])
    /\ UNCHANGED <<incidents, votes, adminNotes, events, now, nextRowId, users>>

\* the same after the upload
CreateCheckAfterUpload(r) ==
    /\ req[r].pc = "create_check"
    /\ LET data == req[r].data
       IN \E dup \in checkForDuplicate(incidents, now, data.incidentType, data.latitude, data.longitude) :
             Await(r, [req[r] EXCEPT !.pc = "create_insert", !.dup = dup,
                                     !.obs.nearLive = NearRecentSameType(incidents, now, data, TRUE),
                                     !.obs.nearAny = NearRecentSameType(incidents, now, data, FALSE)])
    /\ UNCHANGED <<incidents, votes, adminNotes, events, now, started, nextId, nextRowId, users>>

\* upvoteCount is not passed to create: the column default applies
DefaultUpvoteCount == 0

\* the data of prisma.incident.create in createIncident
NewIncident(id, data, duplicateCheck, mediaUrl, clock) ==
    [id |-> id,
     incidentType |-> toUpperCase(data.incidentType),
     description |-> IF duplicateCheck.isDuplicate
                     THEN <<DUP_MARKER>> \o data.description
                     ELSE data.description,
     latitude |-> data.latitude,
     longitude |-> data.longitude,
     severity |-> data.severity,
     status |-> IF duplicateCheck.isDuplicate THEN "FLAGGED" ELSE "REPORTED",
     upvoteCount |-> DefaultUpvoteCount,
     mediaUrl |-> mediaUrl,
     createdAt |-> clock]

\* incident = await prisma.incident.create(...); emitNewIncident; 201
CreateInsert(r) ==
    /\ req[r].pc = "create_insert"
    /\ LET incident == NewIncident(req[r].id, req[r].data, req[r].dup, req[r].mediaUrl, now)
       IN /\ incidents' = incidents \cup {incident}
          /\ events' = emitNewIncident(events, incident)
          /\ Answer(r, [req[r] EXCEPT !.incident = incident], Ok(201, incident, FALSE))
    /\ UNCHANGED <<votes, adminNotes, now, started, nextId, nextRowId, users>>

----------------------------------------------------------------------------
\* authenticate and isAdmin (auth.middleware.ts) in front of
\* IncidentController.updateStatus

\* res.status(code).json({success: false, error}) of the middleware
Rejected(code) == [code |-> code, alreadyVoted |-> FALSE, data |-> Null]

\* mutant: req.user is the payload of a valid token, the store is not read
authenticate_TrustsToken(tbl, token) ==
    IF ~token.present \/ ~token.valid THEN [code |-> 401, user |-> NoUser]
    ELSE [code |-> 0, user |-> [id |-> token.userId, role |-> token.role]]

\* authenticate: 401 without a valid token or when the user of the token is
\* not in the store; otherwise req.user is the stored user
authenticate(tbl, token) ==
    IF ~token.present \/ ~token.valid THEN [code |-> 401, user |-> NoUser]
    ELSE IF ~UserExists(tbl, token.userId) THEN [code |-> 401, user |-> NoUser]
    ELSE [code |-> 0, user |-> FindUser(tbl, token.userId)]

\* isAdmin: 401 without req.user, 403 unless req.user.role is ADMIN
isAdmin(user) ==
    IF user = NoUser THEN 401 ELSE IF user.role # "ADMIN" THEN 403 ELSE 0

\* PATCH /:id/status: authenticate reads the user, isAdmin tests the role, the
\* controller validates the body and the service issues the update
UpdateStatusAuthenticate(r, token, id, status, note) ==
    /\ Free(r)
    /\ started' = started + 1
    /\ LET auth == authenticate(users, token)
           q == [IdleReq EXCEPT !.op = "updateStatus", !.id = id, !.userId = auth.user.id,
                                !.status = status, !.note = note, !.token = token]
       IN IF auth.code # 0 THEN Answer(r, q, Rejected(auth.code))
          ELSE IF isAdmin(auth.user) # 0 THEN Answer(r, q, Rejected(isAdmin(auth.user)))
          ELSE Await(r, [q EXCEPT !.pc = "status_write"])
    /\ UNCHANGED <<incidents, votes, adminNotes, events, now, nextId, nextRowId, users>>

\* DELETE /api/auth/users/:id behind authenticate and isAdmin
DeleteUserAuthenticate(r, token, id) ==
    /\ Free(r)
    /\ started' = started + 1
    /\ LET auth == authenticate(users, token)
           q == [IdleReq EXCEPT !.op = "deleteUser", !.userId = id, !.token = token]
       IN IF auth.code # 0 THEN Answer(r, q, Rejected(auth.code))
          ELSE IF isAdmin(auth.user) # 0 THEN Answer(r, q, Rejected(isAdmin(auth.user)))
          ELSE Await(r, [q EXCEPT !.pc = "user_delete"])
    /\ UNCHANGED <<incidents, votes, adminNotes, events, now, nextId, nextRowId, users>>

\* AuthController.deleteUser: await prisma.user.delete({where: {id}}).  What
\* the store does with the Votes and AdminNotes of the user is fixed by the
\* relations of the schema: either they are removed with the user, or the
\* delete is refused on the foreign key.
DeleteUserRow(r) ==
    /\ req[r].pc = "user_delete"
    /\ LET id == req[r].userId
           referenced == \E x \in votes \cup adminNotes : x.userId = id
       IN \/ /\ ~UserExists(users, id)
             /\ Answer(r, req[r], Failed(PrismaError("P2025")))
             /\ UNCHANGED <<users, votes, adminNotes>>
          \/ /\ UserExists(users, id)
             /\ users' = {u \in users : u.id # id}
             /\ votes' = {v \in votes : v.userId # id}
             /\ adminNotes' = {n \in adminNotes : n.userId # id}
             /\ Answer(r, req[r], Ok(200, Null, FALSE))
          \/ /\ UserExists(users, id) /\ referenced
             /\ Answer(r, req[r], Failed(PrismaError("P2003")))
             /\ UNCHANGED <<users, votes, adminNotes>>
    /\ UNCHANGED <<incidents, events, now, started, nextId, nextRowId>>

----------------------------------------------------------------------------
\* IncidentService.updateIncidentStatus behind IncidentController.updateStatus

\* updateStatusSchema.parse(req.body): status is z.enum(incidentStatuses)
updateStatusSchema(status) == status \in incidentStatuses

\* updateStatusSchema.parse(req.body);
\* incident = await prisma.incident.update({data: {status, updatedAt}});
\* without a note the emit and the response follow at once
UpdateStatusUpdate(r, q) ==
    IF ~updateStatusSchema(q.status)
    THEN /\ Answer(r, q, Failed(ZodError))
         /\ UNCHANGED <<incidents, events>>
    ELSE IF ~IncidentExists(incidents, q.id)
    THEN /\ Answer(r, q, Failed(PrismaError("P2025")))
         /\ UNCHANGED <<incidents, events>>
    ELSE /\ incidents' = UpdateIncident(incidents, q.id, "status", q.status)
         /\ LET incident == FindIncident(incidents', q.id)
            IN IF q.note # ""
               THEN /\ Await(r, [q EXCEPT !.pc = "status_note", !.incident = incident])
                    /\ events' = events
               ELSE /\ events' = emitIncidentUpdate(events, incident)
                    /\ Answer(r, [q EXCEPT !.incident = incident],
                              Ok(200, incident, FALSE))

\* IncidentController.updateStatus for the authenticated administrator adminId
UpdateStatusWrite(r, id, status, adminId, note) ==
    /\ Free(r)
    /\ started' = started + 1
    /\ UpdateStatusUpdate(r, [IdleReq EXCEPT !.op = "updateStatus", !.id = id,
                                             !.userId = adminId,
                                             !.status = status, !.note = note,
                                             !.obs.existed = IncidentExists(incidents, id)])
    /\ UNCHANGED <<votes, adminNotes, now, nextId, nextRowId, users>>

\* IncidentController.updateStatus behind authenticate and isAdmin
UpdateStatusAuthorized(r) ==
    /\ req[r].pc = "status_write"
    /\ UpdateStatusUpdate(r, [req[r] EXCEPT
                                !.obs.existed = IncidentExists(incidents, req[r].id)])
    /\ UNCHANGED <<votes, adminNotes, now, started, nextId, nextRowId, users>>

\* mutant: with a note the update is answered without the emit
UpdateStatusNote_NoEmit(r) ==
    /\ req[r].pc = "status_note"
    /\ IF ~IncidentExists(incidents, req[r].id) \/ ~UserExists(users, req[r].userId)
       THEN /\ Answer(r, req[r], Failed(PrismaError("P2003")))
            /\ UNCHANGED <<adminNotes, nextRowId>>
       ELSE /\ adminNotes' = adminNotes \cup
                  {[id |-> nextRowId, incidentId |-> req[r].id, userId |-> req[r].userId,
                    note |-> <<"Status changed to ", req[r].status, ": ", req[r].note>>]}
            /\ nextRowId' = nextRowId + 1
            /\ Answer(r, req[r], Ok(200, req[r].incident, FALSE))
    /\ UNCHANGED <<incidents, votes, events, now, started, nextId, users>>

\* if (note) await prisma.adminNote.create(...); emit; 200.  The create fails
\* on a foreign key when the incident or the user is no longer in the store.
\* (a note that is absent or the empty string is falsy: both are note = "")
UpdateStatusNote(r) ==
    /\ req[r].pc = "status_note"
    /\ IF ~IncidentExists(incidents, req[r].id) \/ ~UserExists(users, req[r].userId)
       THEN /\ Answer(r, req[r], Failed(PrismaError("P2003")))
            /\ UNCHANGED <<adminNotes, events, nextRowId>>
       ELSE /\ adminNotes' = adminNotes \cup
                  {[id |-> nextRowId, incidentId |-> req[r].id, userId |-> req[r].userId,
                    note |-> <<"Status changed to ", req[r].status, ": ", req[r].note>>]}
            /\ nextRowId' = nextRowId + 1
            /\ events' = emitIncidentUpdate(events, req[r].incident)
            /\ Answer(r, req[r], Ok(200, req[r].incident, FALSE))
    /\ UNCHANGED <<incidents, votes, now, started, nextId, users>>

----------------------------------------------------------------------------
\* IncidentService.updateSeverity behind IncidentController.updateSeverity

\* mutant: the update writes the status column as well
UpdateSeverity_ResetsStatus(r, id, severity) ==
    /\ Free(r)
    /\ started' = started + 1
    /\ LET q == [IdleReq EXCEPT !.op = "updateSeverity", !.id = id,
                                !.obs.existed = IncidentExists(incidents, id)]
       IN IF ~IncidentExists(incidents, id)
          THEN /\ Answer(r, q, Failed(PrismaError("P2025")))
               /\ UNCHANGED <<incidents, events>>
          ELSE /\ incidents' = UpdateIncident(UpdateIncident(incidents, id, "severity", severity),
                                              id, "status", "REPORTED")
               /\ LET incident == FindIncident(incidents', id)
                  IN /\ events' = emitIncidentUpdate(events, incident)
                     /\ Answer(r, [q EXCEPT !.incident = incident], Ok(200, incident, FALSE))
    /\ UNCHANGED <<votes, adminNotes, now, nextId, nextRowId, users>>

UpdateSeverity(r, id, severity) ==
    /\ Free(r)
    /\ started' = started + 1
    /\ LET q == [IdleReq EXCEPT !.op = "updateSeverity", !.id = id,
                                !.obs.existed = IncidentExists(incidents, id)]
       IN IF ~IncidentExists(incidents, id)
          THEN /\ Answer(r, q, Failed(PrismaError("P2025")))
               /\ UNCHANGED <<incidents, events>>
          ELSE /\ incidents' = UpdateIncident(incidents, id, "severity", severity)
               /\ LET incident == FindIncident(incidents', id)
                  IN /\ events' = emitIncidentUpdate(events, incident)
                     /\ Answer(r, [q EXCEPT !.incident = incident], Ok(200, incident, FALSE))
    /\ UNCHANGED <<votes, adminNotes, now, nextId, nextRowId, users>>

----------------------------------------------------------------------------
\* IncidentService.getIncidentById and IncidentService.getStats (reads)

\* findUnique({where: {id}, include: {votes, adminNotes, _count}}), or null
getIncidentById(tblIncidents, tblVotes, tblNotes, id) ==
    IF IncidentExists(tblIncidents, id)
    THEN [incident |-> FindIncident(tblIncidents, id),
          votes |-> {v \in tblVotes : v.incidentId = id},
          adminNotes |-> {n \in tblNotes : n.incidentId = id},
          countVotes |-> Cardinality({v \in tblVotes : v.incidentId = id})]
    ELSE Null

\* the four prisma.incident.count calls
getStats(tbl) ==
    [total |-> Cardinality(tbl),
     pending |-> Cardinality({i \in tbl : i.status = "REPORTED"}),
     active |-> Cardinality({i \in tbl : i.status = "IN_PROGRESS"}),
     resolved |-> Cardinality({i \in tbl : i.status = "RESOLVED"})]

\* one of the four prisma.incident.count calls of getStats
statsCount(tbl, which) ==
    CASE which = "total" -> Cardinality(tbl)
      [] which = "pending" -> Cardinality({i \in tbl : i.status = "REPORTED"})
      [] which = "active" -> Cardinality({i \in tbl : i.status = "IN_PROGRESS"})
      [] which = "resolved" -> Cardinality({i \in tbl : i.status = "RESOLVED"})

Outstanding(stats) == {which \in DOMAIN stats : stats[which] = -1}

\* The store answers one more of the counts issued by Promise.all; with the
\* last one the controller answers 200 with {total, pending, active, resolved}
StatsCounted(r, q, which) ==
    LET stats == [q.stats EXCEPT ![which] = statsCount(incidents, which)]
    IN IF Outstanding(stats) = {}
       THEN Answer(r, [q EXCEPT !.stats = stats], Ok(200, stats, FALSE))
       ELSE Await(r, [q EXCEPT !.pc = "stats_count", !.stats = stats])

\* IncidentController.getStats: the four counts are issued together
GetStatsFirst(r, which) ==
    /\ Free(r)
    /\ started' = started + 1
    /\ StatsCounted(r, [IdleReq EXCEPT !.op = "getStats"], which)
    /\ UNCHANGED <<incidents, votes, adminNotes, events, now, nextId, nextRowId, users>>

GetStatsNext(r) ==
    /\ req[r].pc = "stats_count"
    /\ \E which \in Outstanding(req[r].stats) : StatsCounted(r, req[r], which)
    /\ UNCHANGED <<incidents, votes, adminNotes, events, now, started, nextId, nextRowId, users>>

\* IncidentController.getIncidentById (no token: optionalAuth passes it on)
GetById(r, id) ==
    /\ Free(r)
    /\ started' = started + 1
    /\ LET incident == getIncidentById(incidents, votes, adminNotes, id)
           q == [IdleReq EXCEPT !.op = "getIncidentById", !.id = id]
       IN IF incident = Null THEN Answer(r, q, Failed(AppError(404)))
          ELSE Answer(r, q, Ok(200, incident, FALSE))
    /\ UNCHANGED <<incidents, votes, adminNotes, events, now, nextId, nextRowId, users>>

----------------------------------------------------------------------------
\* The incident router (incident.routes.ts): routes in registration order

\* A path segment is a literal or the uuid of incident id; a route segment is
\* a literal or the parameter :id
Seg(lit) == [lit |-> lit, id |-> 0]
IdSeg(id) == [lit |-> "", id |-> id]
Param == [lit |-> ":id", id |-> 0]

Route(method, path, handler) == [method |-> method, path |-> path, handler |-> handler]

Routes ==
    <<Route("POST", <<>>, "createIncident"),
      Route("GET", <<>>, "getIncidents"),
      Route("GET", <<Param>>, "getIncidentById"),
      Route("PATCH", <<Param, Seg("status")>>, "updateStatus"),
      Route("POST", <<Param, Seg("upvote")>>, "upvoteIncident"),
      Route("GET", <<Seg("stats")>>, "getStats"),
      Route("POST", <<Seg("broadcast")>>, "broadcast")>>

\* a parameter matches any one segment, a literal matches itself
RouteMatches(route, method, path) ==
    /\ route.method = method
    /\ Len(route.path) = Len(path)
    /\ \A k \in 1..Len(path) : route.path[k] = Param \/ route.path[k] = path[k]

\* Express hands the request to the first route that matches
Dispatch(routes, method, path) ==
    LET hits == {k \in 1..Len(routes) : RouteMatches(routes[k], method, path)}
    IN IF hits = {} THEN "none"
       ELSE routes[CHOOSE k \in hits : \A j \in hits : k <= j].handler

\* req.params.id as a key of the Incident table: a segment that is no uuid of
\* an incident names no row
ParamId(seg) == IF seg.lit = "" THEN seg.id ELSE 0

\* GET <path> on the incident router, for the paths of one segment; which is
\* the count the store answers first if the request reaches getStats
RouteGet(r, path, which) ==
    LET handler == Dispatch(Routes, "GET", path)
    IN CASE handler = "getIncidentById" -> GetById(r, ParamId(path[1]))
         [] handler = "getStats" -> GetStatsFirst(r, which)
         [] OTHER -> FALSE

----------------------------------------------------------------------------
\* incidentQuerySchema and IncidentService.getIncidents behind
\* IncidentController.getIncidents

DigitValue(c) ==
    CASE c = "0" -> 0 [] c = "1" -> 1 [] c = "2" -> 2 [] c = "3" -> 3 [] c = "4" -> 4
      [] c = "5" -> 5 [] c = "6" -> 6 [] c = "7" -> 7 [] c = "8" -> 8 [] c = "9" -> 9

RECURSIVE ParseDigits(_, _)
ParseDigits(s, acc) ==
    IF s = <<>> THEN acc ELSE ParseDigits(Tail(s), 10 * acc + DigitValue(Head(s)))

\* parseInt(val, 10) and parseFloat(val) of a decimal numeral with an optional
\* sign and no fraction (the only texts the requests below carry)
parseNumber(s) ==
    IF Head(s) = "-" THEN 0 - ParseDigits(Tail(s), 0) ELSE ParseDigits(s, 0)

\* .transform((val) => (val ? parseInt(val, 10) : dflt))
parseIntOr(val, dflt) ==
    IF val.given /\ val.text # <<>> THEN parseNumber(val.text) ELSE dflt

\* .transform((val) => (val ? parseFloat(val) : undefined)), in model units
parseFloatOptional(val) ==
    IF val.given /\ val.text # <<>>
    THEN Num(parseNumber(val.text) * UnitsPerDegree)
    ELSE Undefined

DEFAULT_PAGE == 1
DEFAULT_LIMIT == 20
MAX_LIMIT == 100
sortKeys == {"createdAt", "upvoteCount"}
sortOrders == {"asc", "desc"}

\* incidentQuerySchema.parse(req.query): the transformed query
incidentQuerySchema(raw) ==
    [page |-> parseIntOr(raw.page, DEFAULT_PAGE),
     limit |-> parseIntOr(raw.limit, DEFAULT_LIMIT),
     status |-> raw.status,
     incidentType |-> raw.incidentType,
     severity |-> raw.severity,
     sortBy |-> IF raw.sortBy = "" THEN "createdAt" ELSE raw.sortBy,
     sortOrder |-> IF raw.sortOrder = "" THEN "desc" ELSE raw.sortOrder,
     minLat |-> parseFloatOptional(raw.minLat),
     maxLat |-> parseFloatOptional(raw.maxLat),
     minLng |-> parseFloatOptional(raw.minLng),
     maxLng |-> parseFloatOptional(raw.maxLng)]

\* the .pipe(z.number().min(1)) ... and the enums of incidentQuerySchema
incidentQueryValid(query) ==
    /\ query.page >= 1
    /\ query.limit >= 1 /\ query.limit <= MAX_LIMIT
    /\ query.status \in incidentStatuses \cup {""}
    /\ query.severity \in severityLevels \cup {""}
    /\ query.sortBy \in sortKeys
    /\ query.sortOrder \in sortOrders

\* the where clause built by getIncidents, applied to a row
Where(query, i) ==
    /\ query.status # "" => i.status = query.status
    /\ query.incidentType # "" => i.incidentType = toUpperCase(query.incidentType)
    /\ query.severity # "" => i.severity = query.severity
    /\ (query.minLat.defined /\ query.maxLat.defined) =>
          (i.latitude >= query.minLat.value /\ i.latitude <= query.maxLat.value)
    /\ (query.minLng.defined /\ query.maxLng.defined) =>
          (i.longitude >= query.minLng.value /\ i.longitude <= query.maxLng.value)

\* orderBy: {[sortBy]: sortOrder}; rows with equal keys come in any order
InOrder(query, a, b) ==
    IF query.sortOrder = "asc" THEN a[query.sortBy] <= b[query.sortBy]
    ELSE a[query.sortBy] >= b[query.sortBy]

Orderings(rows, query) ==
    {o \in [1..Cardinality(rows) -> rows] :
        /\ \A j, k \in DOMAIN o : j # k => o[j] # o[k]
        /\ \A j, k \in DOMAIN o : j < k => InOrder(query, o[j], o[k])}

\* include: {_count: {select: {votes: true, adminNotes: true}}}
WithCount(i, tblVotes, tblNotes) ==
    [incident |-> i,
     countVotes |-> Cardinality({v \in tblVotes : v.incidentId = i.id}),
     countAdminNotes |-> Cardinality({n \in tblNotes : n.incidentId = i.id})]

\* mutant: skip = page * limit, as if pages were numbered from 0
findMany_ZeroBasedPage(tbl, tblVotes, tblNotes, query) ==
    LET rows == {i \in tbl : Where(query, i)}
        skip == query.page * query.limit
        upTo == Min(skip + query.limit, Cardinality(rows))
    IN {[k \in 1..(IF upTo > skip THEN upTo - skip ELSE 0) |->
            WithCount(o[skip + k], tblVotes, tblNotes)] : o \in Orderings(rows, query)}

\* prisma.incident.findMany({where, orderBy, skip, take, include}): the pages
\* the query may return
findMany(tbl, tblVotes, tblNotes, query) ==
    LET rows == {i \in tbl : Where(query, i)}
        skip == (query.page - 1) * query.limit
        upTo == Min(skip + query.limit, Cardinality(rows))
    IN {[k \in 1..(IF upTo > skip THEN upTo - skip ELSE 0) |->
            WithCount(o[skip + k], tblVotes, tblNotes)] : o \in Orderings(rows, query)}

\* prisma.incident.count({where})
count(tbl, query) == Cardinality({i \in tbl : Where(query, i)})

\* Math.ceil(total / limit)
totalPages(total, limit) == (total + limit - 1) \div limit

\* {success, data: result.incidents, meta: {total, page, totalPages, limit}}
ListResult(query, read) ==
    [incidents |-> read.incidents, total |-> read.total, page |-> query.page,
     totalPages |-> totalPages(read.total, query.limit), limit |-> query.limit]

\* One of the two reads of Promise.all([findMany, count]) against the store
ListRead(read, query, which) ==
    IF which = "findMany"
    THEN {[read EXCEPT !.found = TRUE, !.incidents = page] :
             page \in findMany(incidents, votes, adminNotes, query)}
    ELSE {[read EXCEPT !.counted = TRUE, !.total = count(incidents, query)]}

\* incidentQuerySchema.parse(req.query), then the two queries are issued; the
\* store answers one of them first
ListFirst(r, raw, which) ==
    /\ Free(r)
    /\ started' = started + 1
    /\ LET query == incidentQuerySchema(raw)
           q == [IdleReq EXCEPT !.op = "list", !.query = query]
       IN IF incidentQueryValid(query)
          THEN \E read \in ListRead(NoRead, query, which) :
                  Await(r, [q EXCEPT !.pc = "list_rest", !.read = read])
          ELSE Answer(r, q, Failed(ZodError))
    /\ UNCHANGED <<incidents, votes, adminNotes, events, now, nextId, nextRowId, users>>

\* the store answers the other query; res.status(200).json(...)
ListRest(r) ==
    /\ req[r].pc = "list_rest"
    /\ \E read \in ListRead(req[r].read, req[r].query,
                            IF req[r].read.found THEN "count" ELSE "findMany") :
          Answer(r, [req[r] EXCEPT !.read = read],
                 Ok(200, ListResult(req[r].query, read), FALSE))
    /\ UNCHANGED <<incidents, votes, adminNotes, events, now, started, nextId, nextRowId, users>>

----------------------------------------------------------------------------
\* IncidentService.addAdminNote behind IncidentController.addNote

\* mutant: the note is announced like a status change
AddNoteCreate_Emits(r, id, adminId, note) ==
    /\ Free(r)
    /\ started' = started + 1
    /\ LET q == [IdleReq EXCEPT !.op = "addNote", !.id = id, !.userId = adminId, !.note = note,
                                !.obs.existed = IncidentExists(incidents, id)]
       IN IF ~IncidentExists(incidents, id)
          THEN /\ Answer(r, q, Failed(PrismaError("P2003")))
               /\ UNCHANGED <<adminNotes, nextRowId, events>>
          ELSE /\ adminNotes' = adminNotes \cup
                     {[id |-> nextRowId, incidentId |-> id, userId |-> adminId, note |-> <<note>>]}
               /\ nextRowId' = nextRowId + 1
               /\ events' = emitIncidentUpdate(events, FindIncident(incidents, id))
               /\ Await(r, [q EXCEPT !.pc = "note_read"])
    /\ UNCHANGED <<incidents, votes, now, nextId, users>>

\* await prisma.adminNote.create(...): the row needs its incident
AddNoteCreate(r, id, adminId, note) ==
    /\ Free(r)
    /\ started' = started + 1
    /\ LET q == [IdleReq EXCEPT !.op = "addNote", !.id = id, !.userId = adminId, !.note = note,
                                !.obs.existed = IncidentExists(incidents, id)]
       IN IF ~IncidentExists(incidents, id)
          THEN /\ Answer(r, q, Failed(PrismaError("P2003")))
               /\ UNCHANGED <<adminNotes, nextRowId>>
          ELSE /\ adminNotes' = adminNotes \cup
                     {[id |-> nextRowId, incidentId |-> id, userId |-> adminId, note |-> <<note>>]}
               /\ nextRowId' = nextRowId + 1
               /\ Await(r, [q EXCEPT !.pc = "note_read"])
    /\ UNCHANGED <<incidents, votes, events, now, nextId, users>>

\* incident = await this.getIncidentById(incidentId); throw if it is gone
AddNoteRead(r) ==
    /\ req[r].pc = "note_read"
    /\ LET incident == getIncidentById(incidents, votes, adminNotes, req[r].id)
       IN IF incident = Null
          THEN Answer(r, req[r], Failed(PlainError))
          ELSE Answer(r, [req[r] EXCEPT !.incident = incident], Ok(200, incident, FALSE))
    /\ UNCHANGED <<incidents, votes, adminNotes, events, now, started, nextId, nextRowId, users>>

----------------------------------------------------------------------------
\* IncidentService.deleteIncident behind IncidentController.deleteIncident

\* onDelete: Cascade of the relations Vote.incident and AdminNote.incident
CascadeDelete(tbl, id) == {x \in tbl : x.incidentId # id}

\* incident = await findUnique; if (!incident) throw new Error('Incident not found')
DeleteFind(r, id) ==
    /\ Free(r)
    /\ started' = started + 1
    /\ LET q == [IdleReq EXCEPT !.op = "delete", !.id = id,
                                !.obs.existed = IncidentExists(incidents, id)]
       IN IF IncidentExists(incidents, id)
          THEN Await(r, [q EXCEPT !.pc = "delete_row"])
          ELSE Answer(r, q, Failed(PlainError))
    /\ UNCHANGED <<incidents, votes, adminNotes, events, now, nextId, nextRowId, users>>

\* mutant: the delete has no where clause
DeleteRow_DeletesAll(r) ==
    /\ req[r].pc = "delete_row"
    /\ IF IncidentExists(incidents, req[r].id)
       THEN /\ incidents' = {}
            /\ votes' = {}
            /\ adminNotes' = {}
            /\ Answer(r, req[r], Ok(200, Null, FALSE))
       ELSE /\ Answer(r, req[r], Failed(PrismaError("P2025")))
            /\ UNCHANGED <<incidents, votes, adminNotes>>
    /\ UNCHANGED <<events, now, started, nextId, nextRowId, users>>

\* await prisma.incident.delete({where: {id}})
DeleteRow(r) ==
    /\ req[r].pc = "delete_row"
    /\ IF IncidentExists(incidents, req[r].id)
       THEN /\ incidents' = {i \in incidents : i.id # req[r].id}
            /\ votes' = CascadeDelete(votes, req[r].id)
            /\ adminNotes' = CascadeDelete(adminNotes, req[r].id)
            /\ Answer(r, req[r], Ok(200, Null, FALSE))
       ELSE /\ Answer(r, req[r], Failed(PrismaError("P2025")))
            /\ UNCHANGED <<incidents, votes, adminNotes>>
    /\ UNCHANGED <<events, now, started, nextId, nextRowId, users>>

----------------------------------------------------------------------------
\* Time passes

TickMinutes == 10

Tick ==
    /\ now + TickMinutes <= MaxNow
    /\ now' = now + TickMinutes
    /\ UNCHANGED <<incidents, votes, adminNotes, events, req, last, started, nextId, nextRowId, users>>

----------------------------------------------------------------------------
\* The state after start-up: empty tables, no request in flight

Init ==
    /\ incidents = {}
    /\ votes = {}
    /\ adminNotes = {}
    /\ events = <<>>
    /\ now = 0
    /\ req = [r \in Slots |-> IdleReq]
    /\ last = IdleReq
    /\ started = 0
    /\ nextId = 1
    /\ nextRowId = 1
    /\ users = RegisteredUsers

\* The voting specification has one report; its requests name that incident
IncidentIds == {1}

\* The report every Create of the voting specification submits
FireReport == [incidentType |-> "FIRE", description |-> <<"smoke at the depot">>,
               latitude |-> 0, longitude |-> 0, severity |-> "MEDIUM"]

----------------------------------------------------------------------------
\* Spec: voting.  One report, upvotes by two users and by anonymous callers,
\* an administrator who closes and reopens the incident.

Accept == started < MaxRequests

VoteAdminStatuses == {"REPORTED", "RESOLVED"}

DoCreateCheck == Accept /\ nextId \in IncidentIds /\ \E r \in Slots : CreateCheck(r, FireReport)
DoCreateInsert == \E r \in Slots : CreateInsert(r)
DoUpvoteAnonymous == Accept /\ \E r \in Slots, id \in IncidentIds : UpvoteAnonymous(r, id)
DoUpvoteFindVote == Accept /\ \E r \in Slots, id \in IncidentIds, u \in Users : UpvoteFindVote(r, id, u)
DoUpvoteAlreadyVoted == \E r \in Slots : UpvoteAlreadyVoted(r)
DoUpvoteTransaction == \E r \in Slots : UpvoteTransaction(r)
DoUpvoteVerify == \E r \in Slots : UpvoteVerify(r)
DoUpdateStatusWrite ==
    Accept /\ \E r \in Slots, id \in IncidentIds, s \in VoteAdminStatuses :
                 UpdateStatusWrite(r, id, s, "admin", "")

Next ==
    \/ DoCreateCheck
    \/ DoCreateInsert
    \/ DoUpvoteAnonymous
    \/ DoUpvoteFindVote
    \/ DoUpvoteAlreadyVoted
    \/ DoUpvoteTransaction
    \/ DoUpvoteVerify
    \/ DoUpdateStatusWrite

Spec == Init /\ [][Next]_vars

----------------------------------------------------------------------------
\* Vocabulary of the properties

\* the step is the first one of a request, which takes slot r
Arrives(r) == Free(r) /\ started' = started + 1

\* the step is taken by the request in slot r
StepOf(r) == Arrives(r) \/ (req[r].pc # "idle" /\ req'[r] # req[r])

\* the request of slot r after its step: at its next await, or answered
Post(r) == IF req'[r].pc = "idle" THEN last' ELSE req'[r]

\* the request most recently answered
Answered(op) == last.pc = "done" /\ last.op = op

\* the step is the first one of an upvote by an anonymous caller
AnonymousUpvoteStep(r) ==
    Arrives(r) /\ Post(r).op = "upvote" /\ Post(r).userId = ANONYMOUS

\* the step is the first one of an upvote by an authenticated user
UserUpvoteArrives(r) ==
    Arrives(r) /\ Post(r).op = "upvote" /\ Post(r).userId \in Users

\* the step is the first one of a status update
UpdateStatusArrives(r) == Arrives(r) /\ Post(r).op = "updateStatus"

StatusesUnchanged ==
    \A i \in incidents : IncidentExists(incidents', i.id) =>
        FindIncident(incidents', i.id).status = i.status

HasVote(userId, id) == \E v \in votes : v.userId = userId /\ v.incidentId = id

----------------------------------------------------------------------------
\* C1: in every reachable state, whatever the interleaving of upvotes, no two
\* Vote rows carry the same (user, incident) pair.
C1_OneVotePerUserAndIncident ==
    \A v1 \in votes, v2 \in votes :
        (v1.userId = v2.userId /\ v1.incidentId = v2.incidentId) => v1 = v2

\* two upvotes of one user raced: one inserted the row, the other was rejected
C1_Witness ==
    /\ Answered("upvote") /\ last.obs.raceLost
    /\ Cardinality({v \in votes : v.userId = last.userId /\ v.incidentId = last.id}) = 1

\* C2: an upvote that loses the race on the (user, incident) uniqueness
\* constraint answers 200 with alreadyVoted = true, never with a failure.
C2_RaceLoserReportsAlreadyVoted ==
    (Answered("upvote") /\ last.obs.raceLost) =>
        (last.resp.code = 200 /\ last.resp.alreadyVoted)

\* C3: an upvote of a user increments the count only together with the
\* insertion of the user's one Vote row for that incident, and by exactly one;
\* an upvote that arrives when the row exists takes the already-voted path,
\* which answers 200 with alreadyVoted = true and the stored incident, and
\* changes neither incidents, votes nor events.
C3_UpvoteTwiceCountsOnce ==
    [][\A r \in Slots :
        /\ (req[r].pc = "upvote_tx" /\ StepOf(r) /\ incidents' # incidents) =>
              /\ ~HasVote(req[r].userId, req[r].id)
              /\ \E v \in votes' : /\ v.userId = req[r].userId /\ v.incidentId = req[r].id
                                   /\ votes' = votes \cup {v}
              /\ FindIncident(incidents', req[r].id).upvoteCount
                    = FindIncident(incidents, req[r].id).upvoteCount + 1
        /\ (UserUpvoteArrives(r) /\ HasVote(Post(r).userId, Post(r).id)) =>
              /\ Post(r).pc = "upvote_found"
              /\ incidents' = incidents /\ votes' = votes /\ events' = events
        /\ (req[r].pc = "upvote_found" /\ StepOf(r)) =>
              /\ Post(r).pc = "done"
              /\ Post(r).resp = [code |-> 200, alreadyVoted |-> TRUE,
                                 data |-> FindIncident(incidents, req[r].id)]
              /\ incidents' = incidents /\ votes' = votes /\ events' = events
    ]_vars

\* the second of two upvotes in sequence has answered: one vote, count one
C3_Witness ==
    /\ Answered("upvote") /\ last.obs.votedBefore
    /\ last.resp.alreadyVoted
    /\ last.resp.data # Null
    /\ last.resp.data.upvoteCount = 1
    /\ Cardinality(votes) = 1

\* C4: the transaction of a first-time upvote of a user changes no status; it
\* is followed by the verification write exactly when the incident was
\* REPORTED and its incremented count is at least the threshold (at count 4
\* with threshold 5 it is, at count 3 it is not), and that write sets VERIFIED
\* and nothing else.
C4_VerifiedExactlyAtThreshold ==
    [][\A r \in Slots :
        /\ (req[r].pc = "upvote_tx" /\ StepOf(r) /\ votes' # votes) =>
              LET before == FindIncident(incidents, req[r].id)
                  after == FindIncident(incidents', req[r].id)
              IN /\ StatusesUnchanged
                 /\ Post(r).pc = "upvote_verify" <=>
                        (before.status = "REPORTED" /\ after.upvoteCount >= VERIFICATION_THRESHOLD)
                 /\ (VERIFICATION_THRESHOLD = 5 /\ before.status = "REPORTED"
                        /\ before.upvoteCount = 4) => Post(r).pc = "upvote_verify"
                 /\ (VERIFICATION_THRESHOLD = 5 /\ before.upvoteCount = 3) => Post(r).pc = "done"
                 /\ before.status # "REPORTED" => Post(r).pc = "done"
        /\ (req[r].pc = "upvote_verify" /\ StepOf(r) /\ IncidentExists(incidents, req[r].id)) =>
              /\ incidents' = UpdateIncident(incidents, req[r].id, "status", "VERIFIED")
              /\ Post(r).resp.data.status = "VERIFIED"
        /\ (StepOf(r) /\ Post(r).op = "upvote" /\ req[r].pc # "upvote_verify") => StatusesUnchanged
    ]_vars

\* a fifth vote on a REPORTED incident has verified it
C4_Witness ==
    /\ Answered("upvote") /\ last.userId \in Users
    /\ Cardinality({v \in votes : v.incidentId = last.id}) = 2
    /\ last.obs.preStatus = "REPORTED" /\ last.obs.postCount = 5
    /\ last.obs.wrote = "VERIFIED"
    /\ last.resp.data.status = "VERIFIED"

\* C5: an anonymous upvote of an existing incident inserts no Vote row, raises
\* the count by one and answers 200 with alreadyVoted = false, every time.
C5_AnonymousAlwaysCounts ==
    [][\A r \in Slots :
        (AnonymousUpvoteStep(r) /\ IncidentExists(incidents, Post(r).id)) =>
            /\ votes' = votes
            /\ FindIncident(incidents', Post(r).id).upvoteCount
                  = FindIncident(incidents, Post(r).id).upvoteCount + 1
            /\ Post(r).pc = "done"
            /\ Post(r).resp = [code |-> 200, alreadyVoted |-> FALSE,
                               data |-> FindIncident(incidents', Post(r).id)]
    ]_vars

\* two anonymous upvotes, and nothing else, have raised a count to two
C5_Witness ==
    /\ started = 3
    /\ votes = {}
    /\ \E i \in incidents : i.upvoteCount = 2
    /\ Answered("upvote") /\ last.userId = ANONYMOUS
    /\ last.resp.data.upvoteCount = 2

\* C6: an anonymous upvote changes no incident's status and emits no event,
\* also when it takes the count of a REPORTED incident to the threshold or
\* beyond.
C6_AnonymousNeverVerifies ==
    [][\A r \in Slots :
        AnonymousUpvoteStep(r) => (StatusesUnchanged /\ events' = events)
    ]_vars

\* anonymous upvotes alone took a REPORTED incident to the threshold
C6_Witness ==
    /\ votes = {}
    /\ Len(events) = 1
    /\ Answered("upvote") /\ last.userId = ANONYMOUS
    /\ last.resp.code = 200
    /\ last.resp.data.status = "REPORTED"
    /\ last.resp.data.upvoteCount >= VERIFICATION_THRESHOLD

----------------------------------------------------------------------------
\* SpecAdmin: administration.  The store holds the fire report after
\* VERIFICATION_THRESHOLD - 1 anonymous upvotes (the state Spec reaches by one
\* Create and that many anonymous upvotes, all answered); then every operation
\* of the service may run, a second report included.

SeedCreated == NewIncident(1, FireReport, NoDup, "", 0)
SeedIncident == [SeedCreated EXCEPT !.upvoteCount = VERIFICATION_THRESHOLD - 1]

InitAdmin ==
    /\ incidents = {SeedIncident}
    /\ votes = {}
    /\ adminNotes = {}
    /\ events = emitNewIncident(<<>>, SeedCreated)
    /\ now = 0
    /\ req = [r \in Slots |-> IdleReq]
    /\ last = IdleReq
    /\ started = VERIFICATION_THRESHOLD
    /\ nextId = 2
    /\ nextRowId = 1
    /\ users = RegisteredUsers

MaxAdminRequests == 2
MaxIncidents == 2

AdminAccept == started < VERIFICATION_THRESHOLD + MaxAdminRequests
AdminIds == 1..MaxIncidents
AdminStatusInputs == incidentStatuses \cup {"CLOSED"}
AdminNoteInputs == {"", "crew sent"}

AdmCreateCheck == AdminAccept /\ nextId <= MaxIncidents /\ \E r \in Slots : CreateCheck(r, FireReport)
AdmCreateInsert == \E r \in Slots : CreateInsert(r)
AdmUpvoteAnonymous == AdminAccept /\ \E r \in Slots, id \in AdminIds : UpvoteAnonymous(r, id)
AdmUpvoteFindVote == AdminAccept /\ \E r \in Slots, id \in AdminIds, u \in Users : UpvoteFindVote(r, id, u)
AdmUpvoteAlreadyVoted == \E r \in Slots : UpvoteAlreadyVoted(r)
AdmUpvoteTransaction == \E r \in Slots : UpvoteTransaction(r)
AdmUpvoteVerify == \E r \in Slots : UpvoteVerify(r)
AdmUpdateStatusWrite ==
    AdminAccept /\ \E r \in Slots, id \in AdminIds, s \in AdminStatusInputs, n \in AdminNoteInputs :
                      UpdateStatusWrite(r, id, s, "admin", n)
AdmUpdateStatusNote == \E r \in Slots : UpdateStatusNote(r)
AdmUpdateSeverity == AdminAccept /\ \E r \in Slots, id \in AdminIds : UpdateSeverity(r, id, "HIGH")
AdmAddNoteCreate == AdminAccept /\ \E r \in Slots, id \in AdminIds : AddNoteCreate(r, id, "admin", "seen")
AdmAddNoteRead == \E r \in Slots : AddNoteRead(r)
AdmDeleteFind == AdminAccept /\ \E r \in Slots, id \in AdminIds : DeleteFind(r, id)
AdmDeleteRow == \E r \in Slots : DeleteRow(r)

NextAdmin ==
    \/ AdmCreateCheck
    \/ AdmCreateInsert
    \/ AdmUpvoteAnonymous
    \/ AdmUpvoteFindVote
    \/ AdmUpvoteAlreadyVoted
    \/ AdmUpvoteTransaction
    \/ AdmUpvoteVerify
    \/ AdmUpdateStatusWrite
    \/ AdmUpdateStatusNote
    \/ AdmUpdateSeverity
    \/ AdmAddNoteCreate
    \/ AdmAddNoteRead
    \/ AdmDeleteFind
    \/ AdmDeleteRow

SpecAdmin == InitAdmin /\ [][NextAdmin]_vars

\* C7: a new incident has upvoteCount 0, and no step of any operation lowers
\* the upvoteCount of an incident that exists before and after the step.
C7_UpvoteCountNeverDecreases ==
    [][/\ \A i \in incidents : IncidentExists(incidents', i.id) =>
              FindIncident(incidents', i.id).upvoteCount >= i.upvoteCount
       /\ \A i \in incidents' : ~IncidentExists(incidents, i.id) => i.upvoteCount = 0
    ]_vars

\* an upvote has raised the count of the first report next to a second, new
\* report that has no upvote
C7_Witness ==
    /\ Cardinality(incidents) = 2
    /\ Answered("upvote") /\ last.resp.code = 200
    /\ last.resp.data.upvoteCount = SeedIncident.upvoteCount + 1
    /\ \E i \in incidents : i.id # last.id /\ i.upvoteCount = 0

\* C8 as stated: an incident that has left REPORTED never returns to it, and a
\* status update that is carried out sets one of VERIFIED, IN_PROGRESS,
\* RESOLVED, FLAGGED.
C8_NeverBackToReported ==
    [][/\ \A i \in incidents :
              (i.status # "REPORTED" /\ IncidentExists(incidents', i.id)) =>
                  FindIncident(incidents', i.id).status # "REPORTED"
       /\ \A r \in Slots :
              (UpdateStatusArrives(r) /\ incidents' # incidents) =>
                  Post(r).status \in {"VERIFIED", "IN_PROGRESS", "RESOLVED", "FLAGGED"}
    ]_vars

\* C8 amended: a new incident is REPORTED or FLAGGED; the status of a stored
\* incident changes only by the verification write of an upvote, to VERIFIED,
\* or by a status update, to the status it asks for, which is any of the five
\* statuses; so an incident returns to REPORTED only by a status update that
\* asks for REPORTED.
C8_StatusMoves ==
    [][/\ \A i \in incidents' : ~IncidentExists(incidents, i.id) =>
              i.status \in {"REPORTED", "FLAGGED"}
       /\ \A i \in incidents :
              (IncidentExists(incidents', i.id) /\ FindIncident(incidents', i.id).status # i.status) =>
                  LET new == FindIncident(incidents', i.id).status
                  IN \E r \in Slots :
                        /\ StepOf(r)
                        /\ \/ /\ req[r].pc = "upvote_verify" /\ req[r].id = i.id
                              /\ new = "VERIFIED"
                           \/ /\ UpdateStatusArrives(r)
                              /\ Post(r).id = i.id
                              /\ new = Post(r).status
                              /\ new \in {"REPORTED", "VERIFIED", "IN_PROGRESS",
                                          "RESOLVED", "FLAGGED"}
    ]_vars

\* a status update has taken a verified incident back to REPORTED
C8_Witness ==
    /\ Answered("updateStatus") /\ last.status = "REPORTED"
    /\ last.resp.code = 200
    /\ last.resp.data.status = "REPORTED"
    /\ \E k \in 1..Len(events) :
          /\ events[k].name = "incident:update"
          /\ events[k].data.id = last.id
          /\ events[k].data.status = "VERIFIED"
    /\ \E v \in votes : v.incidentId = last.id

----------------------------------------------------------------------------
\* SpecDup: duplicate detection.  Reports of two types, one of them written in
\* lower case (the store holds every type in upper case), from
\* three places on the equator at the 180th meridian, are created while time
\* passes and an administrator resolves incidents.
\*   East  179.9995 E
\*   West  179.9995 W : 0.001 degree (111 m) from East across the meridian
\*   Inland 179.9977 E : 0.0018 degree (200.2 m) from East, inside the
\*                       bounding box of +-0.0018018 degree, outside the circle

East == [latitude |-> 0, longitude |-> 1799995]
West == [latitude |-> 0, longitude |-> -1799995]
Inland == [latitude |-> 0, longitude |-> 1799977]

DupPlaces == {East, West, Inland}
DupTypes == {"fire", "FLOOD"}

DupReports ==
    {[incidentType |-> t, description |-> <<"smoke at the depot">>,
      latitude |-> p.latitude, longitude |-> p.longitude, severity |-> "MEDIUM"] :
        t \in DupTypes, p \in DupPlaces}

MaxDupRequests == 3

DupAccept == started < MaxDupRequests
DupIds == 1..MaxDupRequests

DupCreateCheck == DupAccept /\ \E r \in Slots, data \in DupReports : CreateCheck(r, data)
DupCreateInsert == \E r \in Slots : CreateInsert(r)
DupUpdateStatusWrite ==
    DupAccept /\ \E r \in Slots, id \in DupIds : UpdateStatusWrite(r, id, "RESOLVED", "admin", "")
DupTick == Tick

NextDup ==
    \/ DupCreateCheck
    \/ DupCreateInsert
    \/ DupUpdateStatusWrite
    \/ DupTick

SpecDup == Init /\ [][NextDup]_vars

\* the step is the insert of the Create in slot r
CreateInsertStep(r) == req[r].pc = "create_insert" /\ StepOf(r)

\* the row the step has inserted for the Create in slot r
Inserted(r) == CHOOSE i \in incidents' \ incidents : i.id = req[r].id

\* C9: a Create whose duplicate check ran when the store held an incident of
\* the same type (whatever the case), neither RESOLVED nor FLAGGED, within 200 m
\* and created within the last 10 minutes, inserts its incident, answers 201,
\* and the incident is FLAGGED with the marker before the submitted description.
C9_NearbyRecentSameTypeIsFlagged ==
    [][\A r \in Slots :
        (CreateInsertStep(r) /\ req[r].obs.nearLive) =>
            /\ \E i \in incidents' \ incidents : i.id = req[r].id
            /\ Post(r).resp.code = 201
            /\ Inserted(r).status = "FLAGGED"
            /\ Inserted(r).description = <<DUP_MARKER>> \o req[r].data.description
    ]_vars

\* C10: a Create whose duplicate check ran when the store held no incident of
\* the same type that was both within 200 m and created within the last 10
\* minutes inserts its incident, answers 201, and the incident is REPORTED with
\* the description as submitted.
C10_NoNearbyRecentSameTypeIsReported ==
    [][\A r \in Slots :
        (CreateInsertStep(r) /\ ~req[r].obs.nearAny) =>
            /\ \E i \in incidents' \ incidents : i.id = req[r].id
            /\ Post(r).resp.code = 201
            /\ Inserted(r).status = "REPORTED"
            /\ Inserted(r).description = req[r].data.description
    ]_vars

\* a report was created next to a live incident of its type that the bounding
\* box admits but the distance rules out, and next to an older one of its type
\* at the same place
C10_Witness ==
    /\ Answered("create") /\ ~last.obs.nearAny
    /\ last.resp.code = 201
    /\ last.resp.data.status = "REPORTED"
    /\ last.resp.data \in incidents
    /\ \E i \in incidents :
          /\ i.id # last.id /\ i.status = "REPORTED"
          /\ EqualsInsensitive(i.incidentType, last.data.incidentType)
          /\ i.createdAt = last.resp.data.createdAt
          /\ i \in RecentIncidents(incidents, last.resp.data.createdAt, last.data.incidentType,
                                   last.data.latitude, last.data.longitude)
          /\ calculateDistance(i.latitude, i.longitude, last.data.latitude, last.data.longitude)
                > DUPLICATE_DISTANCE_METERS
    /\ \E i \in incidents :
          /\ i.id # last.id
          /\ EqualsInsensitive(i.incidentType, last.data.incidentType)
          /\ i.latitude = last.data.latitude /\ i.longitude = last.data.longitude
          /\ last.resp.data.createdAt - i.createdAt > DUPLICATE_TIME_MINUTES

\* the step is the duplicate check of the Create that takes slot r
CreateCheckStep(r) == Arrives(r) /\ Post(r).op = "create" /\ Post(r).pc = "create_insert"

\* C11: the incident a duplicate check matches is, in the store the check
\* read, neither RESOLVED nor FLAGGED; and a Create whose check found nearby,
\* recent incidents of its type only among RESOLVED and FLAGGED ones inserts a
\* REPORTED incident with the description as submitted.
C11_ResolvedAndFlaggedAreIgnored ==
    [][\A r \in Slots :
        /\ (CreateCheckStep(r) /\ Post(r).dup.isDuplicate) =>
              /\ IncidentExists(incidents, Post(r).dup.duplicateOf)
              /\ FindIncident(incidents, Post(r).dup.duplicateOf).status
                    \notin {"RESOLVED", "FLAGGED"}
        /\ (CreateInsertStep(r) /\ req[r].obs.nearAny /\ ~req[r].obs.nearLive) =>
              /\ ~req[r].dup.isDuplicate
              /\ Inserted(r).status = "REPORTED"
              /\ Inserted(r).description = req[r].data.description
    ]_vars

\* a report was created at the place of a resolved incident of its type, in
\* the same minute, and was stored as REPORTED
C11_Witness ==
    /\ Answered("create") /\ last.obs.nearAny /\ ~last.obs.nearLive
    /\ last.resp.data.status = "REPORTED"
    /\ \E i \in incidents :
          /\ i.id # last.id /\ i.status = "RESOLVED"
          /\ EqualsInsensitive(i.incidentType, last.data.incidentType)
          /\ i.latitude = last.data.latitude /\ i.longitude = last.data.longitude
          /\ i.createdAt = last.resp.data.createdAt

----------------------------------------------------------------------------
\* SpecMedia: reports with media.  Creates with and without media bytes, of
\* two types at one place; the media store accepts or rejects an upload.

FloodReport == [FireReport EXCEPT !.incidentType = "FLOOD",
                                  !.description = <<"water in the underpass">>]
MediaReports == {FireReport, FloodReport}

MaxMediaRequests == 3

MediaAccept == started < MaxMediaRequests

MediaCreateUpload ==
    MediaAccept /\ \E r \in Slots, data \in MediaReports, uploaded \in BOOLEAN :
                      CreateUpload(r, data, uploaded)
MediaCreateCheckAfterUpload == \E r \in Slots : CreateCheckAfterUpload(r)
MediaCreateCheck == MediaAccept /\ \E r \in Slots, data \in MediaReports : CreateCheck(r, data)
MediaCreateInsert == \E r \in Slots : CreateInsert(r)

NextMedia ==
    \/ MediaCreateUpload
    \/ MediaCreateCheckAfterUpload
    \/ MediaCreateCheck
    \/ MediaCreateInsert

SpecMedia == Init /\ [][NextMedia]_vars

\* C12: a Create whose upload the media store rejects is answered with a
\* failure at once, with no incident in the response; its step changes neither
\* the incidents nor the events, and it never reaches the duplicate check or
\* the insert, so no row and no incident:new event ever carries its id.
C12_FailedUploadAbortsCreate ==
    [][\A r \in Slots :
        /\ (Arrives(r) /\ Post(r).op = "create" /\ Post(r).obs.uploadFailed) =>
              /\ Post(r).pc = "done"
              /\ Post(r).resp.code >= 400
              /\ Post(r).resp.data = Null
              /\ Post(r).dup = NoDup
              /\ incidents' = incidents /\ events' = events
        /\ (req[r].pc \in {"create_check", "create_insert"} /\ StepOf(r)) =>
              ~req[r].obs.uploadFailed
    ]_vars

\* a Create with media was refused by the media store after an earlier one
\* was stored with its media, and a later one was stored as well
C12_Witness ==
    /\ Cardinality(incidents) = 2
    /\ Len(events) = 2
    /\ nextId = 4
    /\ \E i \in incidents : i.mediaUrl = "secure_url"
    /\ \A i \in incidents : i.id # 2
    /\ \A k \in 1..Len(events) : events[k].data.id # 2

----------------------------------------------------------------------------
\* Vocabulary of the properties on events and notes

\* the events of the log with the given name
Named(log, name) == {k \in 1..Len(log) : log[k].name = name}

\* the events the step has published
Published == SubSeq(events', Len(events) + 1, Len(events'))

\* the step answers the request of slot r
Answers(r) == StepOf(r) /\ req'[r].pc = "idle"

\* the rows of the incidents other than id are as before
OthersUnchanged(id) ==
    {i \in incidents' : i.id # id} = {i \in incidents : i.id # id}

\* C13: the write of a status update sets the status of its incident to the
\* status asked for and nothing else in the store of incidents; a status update
\* answered 200 has published, in its answering step and in no other step, one
\* incident:update event, which carries the incident the write returned, with
\* the new status; and it has recorded one AdminNote "Status changed to
\* {status}: {note}" of its administrator when it came with a note, none when
\* it came without.
C13_UpdateStatusWritesEmitsAndNotes ==
    [][\A r \in Slots :
        /\ (UpdateStatusArrives(r) /\ incidents' # incidents) =>
              /\ incidents' = UpdateIncident(incidents, Post(r).id, "status", Post(r).status)
              /\ FindIncident(incidents', Post(r).id).status = Post(r).status
        /\ (StepOf(r) /\ Post(r).op = "updateStatus" /\ ~(Answers(r) /\ Post(r).resp.code = 200)) =>
              events' = events
        /\ (Answers(r) /\ Post(r).op = "updateStatus" /\ Post(r).resp.code = 200) =>
              /\ Cardinality(Named(Published, "incident:update")) = 1
              /\ \A k \in Named(Published, "incident:update") :
                    /\ Published[k].data = Post(r).resp.data
                    /\ Published[k].data.id = Post(r).id
                    /\ Published[k].data.status = Post(r).status
              /\ LET mine == {n \in adminNotes' : n.incidentId = Post(r).id
                                /\ n.userId = Post(r).userId
                                /\ n.note = <<"Status changed to ", Post(r).status, ": ",
                                              Post(r).note>>}
                 IN IF Post(r).note # ""
                    THEN /\ Cardinality(adminNotes' \ adminNotes) = 1
                         /\ adminNotes' \ adminNotes \subseteq mine
                         /\ adminNotes \subseteq adminNotes'
                    ELSE adminNotes' = adminNotes
        /\ (UpdateStatusArrives(r) /\ ~Answers(r)) => (Post(r).note # "" /\ adminNotes' = adminNotes)
    ]_vars

\* a status update with a note has been answered: the note is stored and the
\* event carries the new status
C13_Witness ==
    /\ Answered("updateStatus") /\ last.resp.code = 200
    /\ last.note = "crew sent" /\ last.status = "IN_PROGRESS"
    /\ \E n \in adminNotes :
          /\ n.incidentId = last.id /\ n.userId = "admin"
          /\ n.note = <<"Status changed to ", "IN_PROGRESS", ": ", "crew sent">>
    /\ Cardinality(adminNotes) = 1
    /\ events[Len(events) - 1].name = "incident:update"
    /\ events[Len(events) - 1].data.status = "IN_PROGRESS"
    /\ FindIncident(incidents, last.id).status = "IN_PROGRESS"

\* C14: a status update with a valid status on an id that matches no incident
\* is answered 404 in its first step, which changes no incident, records no
\* AdminNote and publishes no event.
C14_UpdateStatusOfMissingIsNotFound ==
    [][\A r \in Slots :
        (UpdateStatusArrives(r) /\ Post(r).status \in incidentStatuses
            /\ ~IncidentExists(incidents, Post(r).id)) =>
            /\ Post(r).pc = "done"
            /\ Post(r).resp.code = 404
            /\ Post(r).resp.data = Null
            /\ incidents' = incidents /\ adminNotes' = adminNotes /\ events' = events
            /\ votes' = votes
    ]_vars

\* a status update with a note on a deleted incident was answered 404
C14_Witness ==
    /\ Answered("updateStatus") /\ ~last.obs.existed
    /\ last.id = SeedIncident.id /\ last.note = "crew sent" /\ last.status = "RESOLVED"
    /\ last.resp.code = 404
    /\ incidents = {} /\ adminNotes = {}
    /\ Len(events) = 1

\* C15: a Delete of an id that matches no incident is answered 404, not a
\* generic server error, and changes no incident, vote or note.
C15_DeleteOfMissingIsNotFound ==
    [][\A r \in Slots :
        (Arrives(r) /\ Post(r).op = "delete" /\ ~IncidentExists(incidents, Post(r).id)) =>
            /\ Post(r).pc = "done"
            /\ Post(r).resp.code = 404
            /\ incidents' = incidents /\ votes' = votes /\ adminNotes' = adminNotes
    ]_vars

\* the step is the delete of a Delete that is answered 200
DeleteSucceeds(r) == req[r].pc = "delete_row" /\ Answers(r) /\ Post(r).resp.code = 200

\* C16: the step of a Delete that is answered 200 removes the incident of its
\* id and the Votes and AdminNotes of that incident, and nothing else: reading
\* the id afterwards finds nothing, the total of the statistics is one lower,
\* every other incident, vote and note is as before; and in every state each
\* Vote and each AdminNote belongs to a stored incident.
C16_DeleteCascades ==
    [][/\ \A r \in Slots :
            DeleteSucceeds(r) =>
               /\ IncidentExists(incidents, req[r].id)
               /\ getIncidentById(incidents', votes', adminNotes', req[r].id) = Null
               /\ getStats(incidents').total = getStats(incidents).total - 1
               /\ OthersUnchanged(req[r].id)
               /\ votes' = {v \in votes : v.incidentId # req[r].id}
               /\ adminNotes' = {n \in adminNotes : n.incidentId # req[r].id}
       /\ \A v \in votes' : IncidentExists(incidents', v.incidentId)
       /\ \A n \in adminNotes' : IncidentExists(incidents', n.incidentId)
    ]_vars

\* the first report was deleted after a vote or a note had been recorded for
\* it: the row is gone with it
C16_Witness ==
    /\ Answered("delete") /\ last.resp.code = 200 /\ last.id = SeedIncident.id
    /\ ~IncidentExists(incidents, last.id)
    /\ nextRowId = 2
    /\ votes = {} /\ adminNotes = {}
    /\ \E k \in 1..Len(events) : events[k].name = "incident:update" /\ events[k].data.id = last.id

\* C17: an AddNote on an existing incident inserts one AdminNote row with its
\* incident, its administrator and its text; when it is answered 200 the
\* response is the incident as stored, with its votes and its notes, the new
\* note among them; no step of an AddNote changes an incident or publishes an
\* event.
C17_AddNoteOnlyAddsANote ==
    [][\A r \in Slots :
        /\ (Arrives(r) /\ Post(r).op = "addNote" /\ IncidentExists(incidents, Post(r).id)) =>
              /\ Post(r).pc = "note_read"
              /\ Cardinality(adminNotes' \ adminNotes) = 1
              /\ adminNotes \subseteq adminNotes'
              /\ \A n \in adminNotes' \ adminNotes :
                    /\ n.incidentId = Post(r).id /\ n.userId = Post(r).userId
                    /\ n.note = <<Post(r).note>>
        /\ (Answers(r) /\ Post(r).op = "addNote" /\ Post(r).resp.code = 200) =>
              /\ Post(r).resp.data.incident = FindIncident(incidents, Post(r).id)
              /\ Post(r).resp.data.adminNotes = {n \in adminNotes : n.incidentId = Post(r).id}
              /\ \E n \in Post(r).resp.data.adminNotes :
                    n.userId = Post(r).userId /\ n.note = <<Post(r).note>>
              /\ adminNotes' = adminNotes
        /\ (StepOf(r) /\ Post(r).op = "addNote") =>
              /\ incidents' = incidents
              /\ events' = events
              /\ votes' = votes
    ]_vars

\* a note was added to the first report, which a user had voted for: the
\* response shows the report, the vote and the note
C17_Witness ==
    /\ Answered("addNote") /\ last.resp.code = 200
    /\ last.resp.data.incident.status = "VERIFIED"
    /\ Cardinality(last.resp.data.votes) = 1
    /\ Cardinality(last.resp.data.adminNotes) = 1
    /\ Cardinality(adminNotes) = 1
    /\ Len(events) = 3

\* C18: a step of an Upvote publishes only if it is the verification write of
\* an upvote whose transaction found the incident REPORTED at the threshold;
\* it then sets VERIFIED and publishes one incident:update event with the
\* verified incident.  The anonymous increment, the counted vote below the
\* threshold or on an incident that is not REPORTED, and the already-voted
\* answer publish nothing.
C18_UpvoteEmitsOnlyOnVerification ==
    [][\A r \in Slots :
        /\ (StepOf(r) /\ Post(r).op = "upvote" /\ events' # events) =>
              /\ req[r].pc = "upvote_verify"
              /\ req[r].obs.preStatus = "REPORTED"
              /\ req[r].obs.postCount >= VERIFICATION_THRESHOLD
              /\ FindIncident(incidents', req[r].id).status = "VERIFIED"
              /\ Cardinality(Named(Published, "incident:update")) = 1
              /\ \A k \in Named(Published, "incident:update") :
                    Published[k].data = FindIncident(incidents', req[r].id)
        /\ (Answers(r) /\ Post(r).op = "upvote"
              /\ (Post(r).userId = ANONYMOUS \/ Post(r).resp.alreadyVoted
                    \/ Post(r).obs.wrote # "VERIFIED")) =>
              events' = events
        /\ (req[r].pc \in {"upvote_tx", "upvote_found"} /\ StepOf(r)) => events' = events
    ]_vars

\* after the vote that verified the first report the same user voted again:
\* still one update has been published
C18_Witness ==
    /\ Answered("upvote") /\ last.resp.code = 200
    /\ last.resp.data.status = "VERIFIED"
    /\ last.resp.data.upvoteCount = VERIFICATION_THRESHOLD
    /\ last.resp.alreadyVoted
    /\ Cardinality(Named(events, "incident:update")) = 1
    /\ started = VERIFICATION_THRESHOLD + 2

\* the fields of a full incident record
IncidentFields == DOMAIN SeedIncident

----------------------------------------------------------------------------
\* SpecList: listing.  The store holds four fire reports, one in each quadrant
\* around latitude 0, longitude 0, created one minute apart; List requests
\* with any combination of the four geographic bounds run while an
\* administrator may delete incidents.

Quadrant(lat, lng) == [FireReport EXCEPT !.latitude = lat * UnitsPerDegree,
                                         !.longitude = lng * UnitsPerDegree]
ListSeeds ==
    <<NewIncident(1, Quadrant(5, 5), NoDup, "", 0),
      NewIncident(2, Quadrant(5, -5), NoDup, "", 1),
      NewIncident(3, Quadrant(-5, 5), NoDup, "", 2),
      NewIncident(4, Quadrant(-5, -5), NoDup, "", 3)>>

InitList ==
    /\ incidents = {ListSeeds[k] : k \in DOMAIN ListSeeds}
    /\ votes = {}
    /\ adminNotes = {}
    /\ events = [k \in DOMAIN ListSeeds |->
                    [name |-> "incident:new", room |-> 0, data |-> ListSeeds[k]]]
    /\ now = Len(ListSeeds) - 1
    /\ req = [r \in Slots |-> IdleReq]
    /\ last = IdleReq
    /\ started = Len(ListSeeds)
    /\ nextId = Len(ListSeeds) + 1
    /\ nextRowId = 1
    /\ users = RegisteredUsers

MaxListRequests == 2

ListAccept == started < Len(ListSeeds) + MaxListRequests
ListIds == DOMAIN ListSeeds

\* GET /api/incidents with no parameter
PlainQuery == [page |-> Absent, limit |-> Absent, status |-> "", incidentType |-> "",
               severity |-> "", sortBy |-> "", sortOrder |-> "",
               minLat |-> Absent, maxLat |-> Absent, minLng |-> Absent, maxLng |-> Absent]

\* a bound is left out or is one degree south (west) of the origin
BoundInputs == {Absent, Text(<<"-", "1">>)}

\* every combination of the four bounds, and one query the schema rejects
ListQueries ==
    {[PlainQuery EXCEPT !.minLat = a, !.maxLat = b, !.minLng = c, !.maxLng = d] :
        a \in BoundInputs, b \in BoundInputs, c \in BoundInputs, d \in BoundInputs}
    \cup {[PlainQuery EXCEPT !.page = Text(<<"0">>)]}

ListListFirst ==
    ListAccept /\ \E r \in Slots, raw \in ListQueries, which \in {"findMany", "count"} :
                     ListFirst(r, raw, which)
ListListRest == \E r \in Slots : ListRest(r)
ListDeleteFind == ListAccept /\ \E r \in Slots, id \in ListIds : DeleteFind(r, id)
ListDeleteRow == \E r \in Slots : DeleteRow(r)

NextList ==
    \/ ListListFirst
    \/ ListListRest
    \/ ListDeleteFind
    \/ ListDeleteRow

SpecList == InitList /\ [][NextList]_vars

\* C20: every incident that an answered List returns lies on the right side
\* of each geographic bound the request supplied: latitude >= minLat if minLat
\* was supplied, latitude <= maxLat if maxLat was, longitude >= minLng if
\* minLng was, longitude <= maxLng if maxLng was, whether or not the opposite
\* bound was supplied.
C20_EachSuppliedBoundRestricts ==
    (Answered("list") /\ last.resp.code = 200) =>
        \A k \in DOMAIN last.resp.data.incidents :
            LET i == last.resp.data.incidents[k].incident
            IN /\ last.query.minLat.defined => i.latitude >= last.query.minLat.value
               /\ last.query.maxLat.defined => i.latitude <= last.query.maxLat.value
               /\ last.query.minLng.defined => i.longitude >= last.query.minLng.value
               /\ last.query.maxLng.defined => i.longitude <= last.query.maxLng.value

----------------------------------------------------------------------------
\* SpecPage: pagination.  The store of SpecList; List requests with a page
\* number and a page size (left out, valid, or rejected by the schema), in
\* the default order or ordered by upvoteCount, run while an administrator may
\* delete incidents.

MaxPageRequests == 2

PageAccept == started < Len(ListSeeds) + MaxPageRequests

PageInputs == {Absent, Text(<<"2">>), Text(<<"0">>)}
LimitInputs == {Absent, Text(<<"3">>), Text(<<"1", "0", "1">>)}

PageQueries ==
    {[PlainQuery EXCEPT !.page = p, !.limit = l] : p \in PageInputs, l \in LimitInputs}
    \cup {[PlainQuery EXCEPT !.page = Text(<<"2">>), !.limit = Text(<<"3">>),
                             !.sortBy = "upvoteCount", !.sortOrder = "asc"]}

PageListFirst ==
    PageAccept /\ \E r \in Slots, raw \in PageQueries, which \in {"findMany", "count"} :
                     ListFirst(r, raw, which)
PageListRest == \E r \in Slots : ListRest(r)
PageDeleteFind == PageAccept /\ \E r \in Slots, id \in ListIds : DeleteFind(r, id)
PageDeleteRow == \E r \in Slots : DeleteRow(r)

NextPage ==
    \/ PageListFirst
    \/ PageListRest
    \/ PageDeleteFind
    \/ PageDeleteRow

SpecPage == InitList /\ [][NextPage]_vars

Max(a, b) == IF a >= b THEN a ELSE b

\* The step in which the store answers the findMany (the count) of the List
\* request in slot r
FoundStep(r) ==
    StepOf(r) /\ Post(r).op = "list" /\ ~req[r].read.found /\ Post(r).read.found
CountedStep(r) ==
    StepOf(r) /\ Post(r).op = "list" /\ ~req[r].read.counted /\ Post(r).read.counted

\* C21: for a List request with page >= 1 and page size in 1..100, the items
\* are those at positions (page-1)*pageSize .. page*pageSize-1 of the rows that
\* match the filter, in the requested order, as the store holds them when it
\* answers the query: min(pageSize, max(0, n - (page-1)*pageSize)) items, n
\* being the number of matching rows; total is the number of matching rows
\* when the store answers the count; and the answer carries
\* totalPages = ceil(total / pageSize).
C21_PageAndTotalPages ==
    [][\A r \in Slots :
          LET query == Post(r).query
              page == Post(r).read.incidents
              rows == {i \in incidents : Where(query, i)}
              skip == (query.page - 1) * query.limit
          IN /\ FoundStep(r) =>
                   /\ query.page >= 1 /\ query.limit \in 1..MAX_LIMIT
                   /\ Len(page) = Min(query.limit, Max(0, Cardinality(rows) - skip))
                   /\ \E o \in Orderings(rows, query) :
                         \A k \in 1..Len(page) : page[k].incident = o[skip + k]
             /\ CountedStep(r) => Post(r).read.total = Cardinality(rows)
             /\ (Answers(r) /\ Post(r).op = "list" /\ Post(r).resp.code = 200) =>
                   LET data == Post(r).resp.data
                   IN /\ data.incidents = page
                      /\ data.total = Post(r).read.total
                      /\ data.page = query.page /\ data.limit = query.limit
                      /\ data.totalPages * query.limit >= data.total
                      /\ (data.totalPages - 1) * query.limit < data.total
                      /\ data.totalPages >= 0
             /\ (Answers(r) /\ Post(r).op = "list" /\ Post(r).resp.code # 200) =>
                   /\ Post(r).resp.code = 400
                   /\ ~(query.page >= 1 /\ query.limit \in 1..MAX_LIMIT)
      ]_vars

\* C21 witness: page 2 with page size 3 on the four incidents has been
\* answered with the one remaining item, the oldest incident, total 4 and
\* 2 pages.
C21_Witness ==
    /\ Answered("list") /\ last.resp.code = 200
    /\ last.query.page = 2 /\ last.query.limit = 3 /\ last.query.sortBy = "createdAt"
    /\ last.resp.data.total = 4
    /\ last.resp.data.totalPages = 2
    /\ Len(last.resp.data.incidents) = 1
    /\ last.resp.data.incidents[1].incident = ListSeeds[1]

\* C22: an Upvote that is answered when its incident is not in the store
\* (it never existed, or it was deleted while the Upvote was in progress) is
\* answered NotFound (404), and no Vote row for that incident is left.
C22_UpvoteOfMissingIsNotFound ==
    [][\A r \in Slots :
          (Answers(r) /\ Post(r).op = "upvote"
              /\ ~IncidentExists(incidents', Post(r).id)) =>
             /\ Post(r).resp.code = 404
             /\ \A v \in votes' : v.incidentId # Post(r).id
      ]_vars

----------------------------------------------------------------------------
\* SpecAuth: the administrative status update behind its middleware.  The
\* store of SpecAdmin; status updates arrive with no token, a token that does
\* not verify, or the token of the administrator or of a citizen, while an
\* administrator may delete users (the administrator itself included).

MaxAuthRequests == 3

AuthAccept == started < VERIFICATION_THRESHOLD + MaxAuthRequests

Admin == FindUser(RegisteredUsers, "admin")
Citizen == FindUser(RegisteredUsers, "u1")
AuthTokens == {NoToken, BadToken, TokenOf(Admin), TokenOf(Citizen)}
AuthStatusInputs == {"RESOLVED"}

AuthUpdateStatusAuthenticate ==
    AuthAccept /\ \E r \in Slots, token \in AuthTokens, id \in AdminIds,
                     s \in AuthStatusInputs, n \in AdminNoteInputs :
                     UpdateStatusAuthenticate(r, token, id, s, n)
AuthUpdateStatusAuthorized == \E r \in Slots : UpdateStatusAuthorized(r)
AuthUpdateStatusNote == \E r \in Slots : UpdateStatusNote(r)
AuthDeleteUserAuthenticate ==
    AuthAccept /\ \E r \in Slots, token \in {TokenOf(Admin), TokenOf(Citizen)},
                     id \in {Admin.id, Citizen.id} :
                     DeleteUserAuthenticate(r, token, id)
AuthDeleteUserRow == \E r \in Slots : DeleteUserRow(r)

NextAuth ==
    \/ AuthUpdateStatusAuthenticate
    \/ AuthUpdateStatusAuthorized
    \/ AuthUpdateStatusNote
    \/ AuthDeleteUserAuthenticate
    \/ AuthDeleteUserRow

SpecAuth == InitAdmin /\ [][NextAuth]_vars

\* The token of the request names a user who is in the store with role ADMIN
\* now.
IsStoredAdmin(token) ==
    /\ token.present /\ token.valid
    /\ \E u \in users : u.id = token.userId /\ u.role = "ADMIN"

\* C23: a status update request is passed on to the update exactly when its
\* token is valid and names a user who is in the user store with role ADMIN
\* at that moment; otherwise (no valid token, token of a deleted user, stored
\* role CITIZEN) it is answered 401 or 403 there and then.  No incident is
\* changed by a rejected request, and an incident changes only in a step of a
\* status update that was passed on.
C23_OnlyStoredAdminsUpdateStatus ==
    [][/\ \A r \in Slots :
            (Arrives(r) /\ Post(r).op = "updateStatus") =>
               IF IsStoredAdmin(Post(r).token)
               THEN Post(r).pc = "status_write" /\ Post(r).userId = Post(r).token.userId
               ELSE /\ Answers(r)
                    /\ Post(r).resp.code \in {401, 403}
                    /\ incidents' = incidents
       /\ incidents' # incidents =>
             \E r \in Slots : req[r].pc = "status_write" /\ StepOf(r)
                                 /\ req[r].op = "updateStatus"
      ]_vars

\* C23 witness: the administrator has set incident 1 to RESOLVED and has then
\* been deleted; a status update with the administrator's token has been
\* answered 401 and the incident is unchanged.
C23_Witness ==
    /\ Answered("updateStatus") /\ last.resp.code = 401
    /\ last.token = TokenOf(Admin)
    /\ ~UserExists(users, Admin.id)
    /\ FindIncident(incidents, 1).status = "RESOLVED"

----------------------------------------------------------------------------
\* SpecStats: statistics.  The store of SpecAdmin; GET requests for
\* /api/incidents/stats and /api/incidents/{id} go through the router, and
\* the statistics handler runs while reports, status updates, upvotes and
\* deletes are processed.

MaxStatsRequests == 2

StatsAccept == started < VERIFICATION_THRESHOLD + MaxStatsRequests

StatsPaths == {<<Seg("stats")>>, <<IdSeg(1)>>, <<IdSeg(2)>>}
StatsCounts == DOMAIN NoStats

StatsRouteGet ==
    StatsAccept /\ \E r \in Slots, path \in StatsPaths, which \in StatsCounts :
                      RouteGet(r, path, which)
StatsGetStatsFirst == StatsAccept /\ \E r \in Slots, which \in StatsCounts : GetStatsFirst(r, which)
StatsGetStatsNext == \E r \in Slots : GetStatsNext(r)
StatsCreateCheck == StatsAccept /\ nextId <= MaxIncidents /\ \E r \in Slots : CreateCheck(r, FireReport)
StatsCreateInsert == \E r \in Slots : CreateInsert(r)
StatsUpdateStatusWrite ==
    StatsAccept /\ \E r \in Slots, id \in AdminIds : UpdateStatusWrite(r, id, "IN_PROGRESS", "admin", "")
StatsUpvoteFindVote == StatsAccept /\ \E r \in Slots, id \in AdminIds : UpvoteFindVote(r, id, "u1")
StatsUpvoteAlreadyVoted == \E r \in Slots : UpvoteAlreadyVoted(r)
StatsUpvoteTransaction == \E r \in Slots : UpvoteTransaction(r)
StatsUpvoteVerify == \E r \in Slots : UpvoteVerify(r)
StatsDeleteFind == StatsAccept /\ \E r \in Slots, id \in AdminIds : DeleteFind(r, id)
StatsDeleteRow == \E r \in Slots : DeleteRow(r)

NextStats ==
    \/ StatsRouteGet
    \/ StatsGetStatsFirst
    \/ StatsGetStatsNext
    \/ StatsCreateCheck
    \/ StatsCreateInsert
    \/ StatsUpdateStatusWrite
    \/ StatsUpvoteFindVote
    \/ StatsUpvoteAlreadyVoted
    \/ StatsUpvoteTransaction
    \/ StatsUpvoteVerify
    \/ StatsDeleteFind
    \/ StatsDeleteRow

SpecStats == InitAdmin /\ [][NextStats]_vars

\* C24: a GET request for /api/incidents/stats is handled by getStats: the
\* router hands the path /stats to the statistics handler, and the step that
\* takes the request in is a step of that handler, not of getIncidentById.
C24_StatsRouteReachesGetStats ==
    [][\A r \in Slots, which \in StatsCounts :
          RouteGet(r, <<Seg("stats")>>, which) =>
             /\ Dispatch(Routes, "GET", <<Seg("stats")>>) = "getStats"
             /\ Post(r).op = "getStats"
      ]_vars

\* C30: in every Stats result that has been returned,
\* pending + active + resolved <= total.
C30_StatsResultIsConsistent ==
    (Answered("getStats") /\ last.resp.code = 200) =>
        last.resp.data.pending + last.resp.data.active + last.resp.data.resolved
            <= last.resp.data.total

\* C25: a step of an Upvote changes the status of an incident only from
\* REPORTED to VERIFIED; in particular its verification write does not
\* replace a status that an administrator has set since the upvote read the
\* incident.
C25_VerificationOnlyFromReported ==
    [][\A r \in Slots :
          (StepOf(r) /\ Post(r).op = "upvote") =>
             \A i \in incidents, j \in incidents' :
                (i.id = j.id /\ i.status # j.status) =>
                   (i.status = "REPORTED" /\ j.status = "VERIFIED")
      ]_vars

\* C26: a Create never persists a REPORTED incident next to a duplicate: if,
\* at the moment the incident is inserted, the store holds an incident that
\* duplicate detection matches for it (same type, live, recent, within the
\* distance), for instance one that a concurrent Create inserted after this
\* request ran its own check, the inserted incident is FLAGGED.
C26_ConcurrentDuplicatesAreFlagged ==
    [][\A r \in Slots :
          (CreateInsertStep(r)
              /\ \A res \in checkForDuplicate(incidents, now, req[r].data.incidentType,
                                              req[r].data.latitude, req[r].data.longitude) :
                    res.isDuplicate) =>
             Inserted(r).status = "FLAGGED"
      ]_vars

----------------------------------------------------------------------------
\* SpecVerify: verification.  The store of SpecAdmin (the fire report one
\* upvote short of the threshold); only Upvote requests arrive, from the two
\* citizens and from anonymous callers.

MaxVoteRequests == 3

VerifyAccept == started < VERIFICATION_THRESHOLD + MaxVoteRequests

VerifyUpvoteAnonymous == VerifyAccept /\ \E r \in Slots, id \in AdminIds : UpvoteAnonymous(r, id)
VerifyUpvoteFindVote == VerifyAccept /\ \E r \in Slots, id \in AdminIds, u \in Users : UpvoteFindVote(r, id, u)
VerifyUpvoteAlreadyVoted == \E r \in Slots : UpvoteAlreadyVoted(r)
VerifyUpvoteTransaction == \E r \in Slots : UpvoteTransaction(r)
VerifyUpvoteVerify == \E r \in Slots : UpvoteVerify(r)

NextVerify ==
    \/ VerifyUpvoteAnonymous
    \/ VerifyUpvoteFindVote
    \/ VerifyUpvoteAlreadyVoted
    \/ VerifyUpvoteTransaction
    \/ VerifyUpvoteVerify

SpecVerify == InitAdmin /\ [][NextVerify]_vars

\* the incident:update events published so far that announce incident id as
\* VERIFIED
VerifiedUpdates(id) ==
    {k \in Named(events, "incident:update") :
        events[k].data.id = id /\ events[k].data.status = "VERIFIED"}

\* C27: while only Upvote requests run, at most one incident:update event
\* announcing the verification is published for each incident.
C27_VerificationBroadcastOnce ==
    \A id \in AdminIds : Cardinality(VerifiedUpdates(id)) <= 1

VotesOf(tbl, id) == Cardinality({v \in tbl : v.incidentId = id})

\* C28: while only Upvote requests run, every step keeps upvoteCount minus
\* the number of Vote rows of each incident equal to the number of completed
\* anonymous upvotes on it: the difference grows by one in the step of an
\* anonymous upvote on the incident and is unchanged by every other step; a
\* Vote row and its increment appear in the same step, and every Vote row
\* belongs to a stored incident.  (In the initial store the incident has 4
\* anonymous upvotes and no Vote row.)
C28_CountIsVotesPlusAnonymous ==
    [][/\ \A id \in AdminIds :
            IncidentExists(incidents, id) =>
               LET dCount == FindIncident(incidents', id).upvoteCount
                                - FindIncident(incidents, id).upvoteCount
                   dVotes == VotesOf(votes', id) - VotesOf(votes, id)
                   anonymous == \E r \in Slots :
                                   AnonymousUpvoteStep(r) /\ Post(r).id = id
               IN /\ IncidentExists(incidents', id)
                  /\ dVotes \in {0, 1}
                  /\ dCount = dVotes + (IF anonymous THEN 1 ELSE 0)
       /\ \A v \in votes' : IncidentExists(incidents', v.incidentId)
      ]_vars

\* C28 witness: both citizens and one anonymous caller have upvoted incident
\* 1: two Vote rows, and the count is 4 + 1 + 2.
C28_Witness ==
    /\ Answered("upvote") /\ last.resp.code = 200
    /\ VotesOf(votes, 1) = 2
    /\ FindIncident(incidents, 1).upvoteCount = VERIFICATION_THRESHOLD - 1 + 1 + 2

\* C29: a status update that has written its status completes: the step that
\* follows the write of a request with a note records the note, publishes
\* incident:update and answers 200; it never fails with the status already
\* changed.
C29_UpdateStatusAllOrNothing ==
    [][\A r \in Slots :
          (req[r].pc = "status_note" /\ StepOf(r)) =>
             /\ Post(r).resp.code = 200
             /\ \E n \in adminNotes' \ adminNotes : n.incidentId = req[r].id
             /\ Named(Published, "incident:update") # {}
      ]_vars

============================================================================
